---- MODULE Spec2Model ----
(***************************************************************************)
(* Closed-loop "servo stepper" controller of Klipper (homepods/klipper).   *)
(*                                                                         *)
(* The repository holds several revisions of servo_stepper.c.  The model   *)
(* carries the revision that is built in the variable rev:                 *)
(*   "head"  src/src/servo_stepper.c            (pre-roll + running mean)  *)
(*   "p1"    src/unnamed/part_001, lines 1-303  (single-sample init,       *)
(*           half-step shortcut, max_loop_time)                            *)
(* Spec is the head build, SpecP1 the part_001 build, SpecAll both.        *)
(*                                                                         *)
(* A uint32_t or int32_t value is held as the integer in -2^31 .. 2^31-1   *)
(* with the same 32 bits (two's complement), because TLC evaluates         *)
(* integers in 32 bits: a uint32_t u >= 2^31 is held as u - 2^32.          *)
(***************************************************************************)
EXTENDS Integers, Sequences, FiniteSets, TLC

VARIABLES
    rev,            \* revision of servo_stepper.c that is built
    scn,            \* scenario the environment plays
    ss,             \* struct servo_stepper, pid_ctrl nested
    vs_position,    \* position held by the virtual stepper
    irq_enabled,    \* interrupt mask of the MCU (TRUE: update() may preempt)
    cmd,            \* command context: handler being run and its position
    shutdown_msg,   \* "" while running, else the message of shutdown()
    drv,            \* driver (a4954) calls made by the last step
    upd,            \* locals of the last update() call
    resp,           \* last servo_stepper_stats response sent
    req,            \* last command received: its arguments and the mode
                    \* the instance was in when it arrived
    ncmd,           \* commands issued so far
    nupd,           \* hybrid_pid updates run so far
    samples,        \* encoder positions pid_init has accepted in this init
    since_init,     \* last_stp_pos as pid_init left it, and whether a wrap
                    \* correction was applied to a phase difference since
    dac             \* the DAC peripheral and the gpio_dac_setup call running

vars == <<rev, scn, ss, vs_position, irq_enabled, cmd, shutdown_msg, drv, upd,
          resp, req, ncmd, nupd, samples, since_init, dac>>

----------------------------------------------------------------------------
(* 32-bit machine arithmetic on bit patterns                               *)

Max32 == 2147483647
Min32 == -2147483647 - 1

\* whether the exact sum, difference, product is an int32_t
CeilDiv(n, d) == (n \div d) + (IF n % d = 0 THEN 0 ELSE 1)

AddFits(a, b) == IF b >= 0 THEN a <= Max32 - b ELSE a >= Min32 - b
SubFits(a, b) == IF b >= 0 THEN a >= Min32 + b ELSE a <= Max32 + b
MulFits(a, b) ==
    IF a = 0 \/ b = 0 \/ b = 1 THEN TRUE
    ELSE IF b = -1 THEN a # Min32
    ELSE IF b = Min32 THEN a = 1
    ELSE IF b > 0 THEN a <= Max32 \div b /\ a >= CeilDiv(Min32, b)
    ELSE a <= -CeilDiv(Min32, -b) /\ a >= -(Max32 \div (-b))

Lo16(a) == a % 65536
Hi16(a) == a \div 65536
S16(h) == ((h + 32768) % 65536) - 32768
Join(h, l) == S16(h) * 65536 + l

\* a + b modulo 2^32
Add32(a, b) ==
    IF AddFits(a, b) THEN a + b
    ELSE IF a >= 0 THEN (a + Min32) + (b + Min32)       \* a + b - 2^32
    ELSE (a - Min32) + (b - Min32)                      \* a + b + 2^32

Not32(a) == (-1) - a
\* a negation that is left out
Neg32_id(a) == a
Neg32(a) == Add32(Not32(a), 1)
\* a - b modulo 2^32
Sub32(a, b) ==
    IF SubFits(a, b) THEN a - b
    ELSE IF a >= 0 THEN (a + Min32) - (b - Min32)       \* a - b - 2^32
    ELSE (a - Min32) - (b + Min32)                      \* a - b + 2^32

Shl8(t) == Join(t \div 256, (t % 256) * 256)
MulU16(p, q) == Add32(Shl8(p * (q \div 256)), p * (q % 256))
MulLo16(p, q) == ((p * (q % 256)) + ((p * (q \div 256)) % 256) * 256) % 65536
\* a * b modulo 2^32
Mul32(a, b) ==
    IF MulFits(a, b) THEN a * b ELSE
    LET al == Lo16(a)
        ah == Hi16(a) % 65536
        bl == Lo16(b)
        bh == Hi16(b) % 65536
    IN  Add32(MulU16(al, bl),
              Join((MulLo16(ah, bl) + MulLo16(al, bh)) % 65536, 0))

\* unsigned a / d, for a divisor 2 <= d < 2^30
UDiv(a, d) ==
    IF a >= 0 THEN a \div d
    ELSE LET m == ((a \div 2) + Max32) + 1      \* the unsigned value, halved
             r == a % 2
         IN  2 * (m \div d) + ((2 * (m % d) + r) \div d)
\* unsigned a >> k, 1 <= k < 30
UShr(a, k) == UDiv(a, 2^k)
\* unsigned a < b
ULess(a, b) ==
    IF (a >= 0) = (b >= 0) THEN a < b ELSE a >= 0

\* (uint8_t)a, (uint16_t)a, (int16_t)a
U8(a) == a % 256
U16(a) == a % 65536
I16(a) == S16(a % 65536)

----------------------------------------------------------------------------
(* signed arithmetic: exact when the result fits an int32_t; an overflow   *)
(* is undefined behaviour, with the outcome chosen by ub                   *)

UBOutcomes == {"wrap", "min", "max"}

UBValue(ub, wrapped) ==
    CASE ub = "wrap" -> wrapped
      [] ub = "min" -> Min32
      [] ub = "max" -> Max32

SAdd(a, b, ub) == IF AddFits(a, b) THEN a + b ELSE UBValue(ub, Add32(a, b))
SSub(a, b, ub) == IF SubFits(a, b) THEN a - b ELSE UBValue(ub, Sub32(a, b))
SMul(a, b, ub) == IF MulFits(a, b) THEN a * b ELSE UBValue(ub, Mul32(a, b))
\* C's signed division by a positive divisor: truncation toward zero
SDiv(a, d) ==
    IF a >= 0 THEN a \div d
    ELSE (a \div d) + (IF a % d = 0 THEN 0 ELSE 1)

----------------------------------------------------------------------------
(* macros and constants of servo_stepper.c                                 *)

\* CONSTRAIN with the upper limit left out
CONSTRAIN_no_max(val, min, max) == IF val < min THEN min ELSE val
\* CONSTRAIN with the lower limit left out
CONSTRAIN_no_min(val, min, max) == IF val > max THEN max ELSE val

CONSTRAIN(val, min, max) ==
    IF val < min THEN min ELSE IF val > max THEN max ELSE val
\* ABS that does not negate
ABS_id(val) == val
ABS(val) == IF val < 0 THEN Neg32(val) ELSE val

\* compiler.h is not among the sources: (x + divisor/2) / divisor, unsigned
DIV_ROUND_CLOSEST(x, divisor) == UDiv(Add32(x, divisor \div 2), divisor)

PID_INIT_HOLD == 2000
PID_INIT_SAMPLES == 20
PID_SCALE_DIVISOR == 1024
\* a time scale of 256 clock ticks: a shift two bits short
TIME_SCALE_SHIFT_8 == 10 - 2
TIME_SCALE_SHIFT == 10
FULL_STEP == 256
\* a bias of one bit too many
PHASE_BIAS_25 == 2 * 16777216
PHASE_BIAS == 16777216
\* a threshold that no difference of two 24-bit phases exceeds
PHASE_CHANGE_MAX_off == PHASE_BIAS
PHASE_CHANGE_MAX == 51200

SS_MODE_DISABLED == 0
SS_MODE_OPEN_LOOP == 1
SS_MODE_TORQUE == 2
SS_MODE_HPID == 3
SS_MODE_PID_INIT == 4

----------------------------------------------------------------------------
(* state after oid_alloc (zeroed memory) and command_config_servo_stepper  *)

ZeroPid ==
    [init_count |-> 0, Kp |-> 0, Ki |-> 0, Kd |-> 0, integral |-> 0,
     error |-> 0, encoder_offset |-> 0, phase_offset |-> 0, last_phase |-> 0,
     last_stp_pos |-> 0, last_sample_time |-> 0, max_loop_time |-> 0,
     query_flag |-> 0]

command_config_servo_stepper(args) ==
    [pid_ctrl |-> ZeroPid,
     full_steps_per_rotation |-> args[3],
     step_multiplier |-> U16(args[4]),
     excite_angle |-> 0, run_current_scale |-> 0, hold_current_scale |-> 0,
     flags |-> 0]

\* one call into the a4954 driver
Call(fn, a, b) == [fn |-> fn, a |-> a, b |-> b]

\* locals of an update() call, as far as the mode's code computes them
NoLocals ==
    [mode |-> -1, position |-> 0, sample_time |-> 0, time_diff |-> 0,
     phase |-> 0, phase_diff |-> 0, raw_diff |-> 0, stp |-> 0,
     move_diff |-> 0, err |-> 0, cerr |-> 0, co |-> 0, cur_scale |-> 0,
     next_phase |-> 0, ovf |-> FALSE, pid_time |-> 0]

\* what a mode function hands back: the struct, the driver calls, a
\* shutdown message ("" for none) and its locals
Ret(s, calls, sd, loc) == [ss |-> s, calls |-> calls, sd |-> sd, loc |-> loc]

virtual_stepper_get_position(vs) == vs

\* position_to_phase that truncates: the half divisor is not added
position_to_phase_trunc(s, position) ==
    UDiv(Mul32(s.full_steps_per_rotation, position), FULL_STEP)

position_to_phase(s, position) ==
    DIV_ROUND_CLOSEST(Mul32(s.full_steps_per_rotation, position), FULL_STEP)

\* open loop that passes the position on without the step multiplier
servo_stepper_mode_open_loop_raw(s, vs, position) ==
    LET vsp == virtual_stepper_get_position(vs)
    IN  Ret(s, <<Call("move_to_phase", vsp, s.run_current_scale)>>, "",
            [NoLocals EXCEPT !.mode = SS_MODE_OPEN_LOOP,
                             !.position = position, !.stp = vsp,
                             !.next_phase = vsp,
                             !.cur_scale = s.run_current_scale])

servo_stepper_mode_open_loop(s, vs, position) ==
    LET vsp == virtual_stepper_get_position(vs)
        ph == Mul32(vsp, s.step_multiplier)
    IN  Ret(s, <<Call("move_to_phase", ph, s.run_current_scale)>>, "",
            [NoLocals EXCEPT !.mode = SS_MODE_OPEN_LOOP,
                             !.position = position, !.stp = ph,
                             !.next_phase = ph,
                             !.cur_scale = s.run_current_scale])

\* torque mode that leaves the excite angle out
servo_stepper_mode_torque_update_no_excite(s, vs, position) ==
    LET phase == position_to_phase(s, position)
    IN  Ret(s, <<Call("set_phase", phase, s.run_current_scale)>>, "",
            [NoLocals EXCEPT !.mode = SS_MODE_TORQUE, !.position = position,
                             !.phase = phase, !.next_phase = phase,
                             !.cur_scale = s.run_current_scale])

servo_stepper_mode_torque_update(s, vs, position) ==
    LET phase == position_to_phase(s, position)
        ph == Add32(phase, s.excite_angle)
    IN  Ret(s, <<Call("set_phase", ph, s.run_current_scale)>>, "",
            [NoLocals EXCEPT !.mode = SS_MODE_TORQUE, !.position = position,
                             !.phase = phase, !.next_phase = ph,
                             !.cur_scale = s.run_current_scale])

\* pid_init that sums the samples' distances from the first sample in
\* integral until the last sample, and has no pre-roll
servo_stepper_mode_pid_init_acc(s, vs, position, t) ==
    LET p == s.pid_ctrl
        loc == [NoLocals EXCEPT !.mode = SS_MODE_PID_INIT,
                                !.position = position]
        first == p.init_count = 0
        pos_diff == Sub32(position, p.encoder_offset)
        count == U8(p.init_count + 1)
        s1 == [s EXCEPT !.pid_ctrl.init_count = count,
                        !.pid_ctrl.last_phase = 0,
                        !.pid_ctrl.encoder_offset =
                            IF first THEN position ELSE @,
                        !.pid_ctrl.integral =
                            IF first THEN @ ELSE Add32(@, pos_diff)]
    IN  IF ~first /\ ABS(pos_diff) > FULL_STEP THEN
            Ret(s, <<>>, "Encoder Variance too large!  Check your calibration and magnet position.", loc)
        ELSE IF count >= PID_INIT_SAMPLES THEN
            Ret([s1 EXCEPT !.pid_ctrl.integral = 0,
                           !.pid_ctrl.last_sample_time = t.t1,
                           !.flags = SS_MODE_HPID],
                <<>>, "", [loc EXCEPT !.sample_time = t.t1])
        ELSE Ret(s1, <<>>, "", loc)

\* pid_init that applies the hold current in every call of its pre-roll
servo_stepper_mode_pid_init_hold_each(s, vs, position, t) ==
    LET p == s.pid_ctrl
        hold == [NoLocals EXCEPT !.mode = SS_MODE_PID_INIT]
        loc == [hold EXCEPT !.position = position]
    IN
    IF p.last_phase # 0 THEN
        \* pre-roll: hold current, count down
        Ret([s EXCEPT !.pid_ctrl.last_phase = Sub32(p.last_phase, 1)],
            <<Call("hold", s.hold_current_scale, 0)>>,
            "", hold)
    ELSE
    LET last_avg == p.encoder_offset
        raw == Sub32(position, last_avg)
        is_negative == raw < 0                  \* pos_diff & 0x80000000
        pos_diff == IF is_negative THEN Neg32(raw) ELSE raw
        variance == p.init_count # 0 /\ ULess(FULL_STEP, pos_diff)
        step == DIV_ROUND_CLOSEST(pos_diff, p.init_count + 1)
        mean == IF p.init_count = 0 THEN position
                ELSE IF is_negative THEN Sub32(last_avg, step)
                ELSE Add32(last_avg, step)
        count == U8(p.init_count + 1)
        s1 == [s EXCEPT !.pid_ctrl.encoder_offset = mean,
                        !.pid_ctrl.init_count = count]
    IN
    IF variance THEN
        Ret(s, <<>>, "Encoder Variance too large!  Check your calibration and magnet position.", loc)
    ELSE IF count >= PID_INIT_SAMPLES THEN
        Ret([s1 EXCEPT !.pid_ctrl.last_phase = 0,
                       !.pid_ctrl.last_sample_time = t.t1,
                       !.pid_ctrl.error = 0,
                       !.flags = SS_MODE_HPID],
            <<>>, "", [loc EXCEPT !.sample_time = t.t1])
    ELSE Ret(s1, <<>>, "", loc)

\* pid_init that completes one sample early
servo_stepper_mode_pid_init_early(s, vs, position, t) ==
    LET p == s.pid_ctrl
        hold == [NoLocals EXCEPT !.mode = SS_MODE_PID_INIT]
        loc == [hold EXCEPT !.position = position]
    IN
    IF p.last_phase # 0 THEN
        \* pre-roll: hold current once, then count down
        Ret([s EXCEPT !.pid_ctrl.last_phase = Sub32(p.last_phase, 1)],
            IF p.last_phase = PID_INIT_HOLD - 10
            THEN <<Call("hold", s.hold_current_scale, 0)>> ELSE <<>>,
            "", hold)
    ELSE
    LET last_avg == p.encoder_offset
        raw == Sub32(position, last_avg)
        is_negative == raw < 0                  \* pos_diff & 0x80000000
        pos_diff == IF is_negative THEN Neg32(raw) ELSE raw
        variance == p.init_count # 0 /\ ULess(FULL_STEP, pos_diff)
        step == DIV_ROUND_CLOSEST(pos_diff, p.init_count + 1)
        mean == IF p.init_count = 0 THEN position
                ELSE IF is_negative THEN Sub32(last_avg, step)
                ELSE Add32(last_avg, step)
        count == U8(p.init_count + 1)
        s1 == [s EXCEPT !.pid_ctrl.encoder_offset = mean,
                        !.pid_ctrl.init_count = count]
    IN
    IF variance THEN
        Ret(s, <<>>, "Encoder Variance too large!  Check your calibration and magnet position.", loc)
    ELSE IF count >= PID_INIT_SAMPLES - 1 THEN
        Ret([s1 EXCEPT !.pid_ctrl.last_phase = 0,
                       !.pid_ctrl.last_sample_time = t.t1,
                       !.pid_ctrl.error = 0,
                       !.flags = SS_MODE_HPID],
            <<>>, "", [loc EXCEPT !.sample_time = t.t1])
    ELSE Ret(s1, <<>>, "", loc)

\* pid_init that moves the mean away from the sample
servo_stepper_mode_pid_init_away(s, vs, position, t) ==
    LET p == s.pid_ctrl
        hold == [NoLocals EXCEPT !.mode = SS_MODE_PID_INIT]
        loc == [hold EXCEPT !.position = position]
    IN
    IF p.last_phase # 0 THEN
        \* pre-roll: hold current once, then count down
        Ret([s EXCEPT !.pid_ctrl.last_phase = Sub32(p.last_phase, 1)],
            IF p.last_phase = PID_INIT_HOLD - 10
            THEN <<Call("hold", s.hold_current_scale, 0)>> ELSE <<>>,
            "", hold)
    ELSE
    LET last_avg == p.encoder_offset
        raw == Sub32(position, last_avg)
        is_negative == raw < 0                  \* pos_diff & 0x80000000
        pos_diff == IF is_negative THEN Neg32(raw) ELSE raw
        variance == p.init_count # 0 /\ ULess(FULL_STEP, pos_diff)
        step == DIV_ROUND_CLOSEST(pos_diff, p.init_count + 1)
        mean == IF p.init_count = 0 THEN position
                ELSE IF is_negative THEN Add32(last_avg, step)
                ELSE Sub32(last_avg, step)
        count == U8(p.init_count + 1)
        s1 == [s EXCEPT !.pid_ctrl.encoder_offset = mean,
                        !.pid_ctrl.init_count = count]
    IN
    IF variance THEN
        Ret(s, <<>>, "Encoder Variance too large!  Check your calibration and magnet position.", loc)
    ELSE IF count >= PID_INIT_SAMPLES THEN
        Ret([s1 EXCEPT !.pid_ctrl.last_phase = 0,
                       !.pid_ctrl.last_sample_time = t.t1,
                       !.pid_ctrl.error = 0,
                       !.flags = SS_MODE_HPID],
            <<>>, "", [loc EXCEPT !.sample_time = t.t1])
    ELSE Ret(s1, <<>>, "", loc)

servo_stepper_mode_pid_init(s, vs, position, t) ==
    LET p == s.pid_ctrl
        hold == [NoLocals EXCEPT !.mode = SS_MODE_PID_INIT]
        loc == [hold EXCEPT !.position = position]
    IN
    IF p.last_phase # 0 THEN
        \* pre-roll: hold current once, then count down
        Ret([s EXCEPT !.pid_ctrl.last_phase = Sub32(p.last_phase, 1)],
            IF p.last_phase = PID_INIT_HOLD - 10
            THEN <<Call("hold", s.hold_current_scale, 0)>> ELSE <<>>,
            "", hold)
    ELSE
    LET last_avg == p.encoder_offset
        raw == Sub32(position, last_avg)
        is_negative == raw < 0                  \* pos_diff & 0x80000000
        pos_diff == IF is_negative THEN Neg32(raw) ELSE raw
        variance == p.init_count # 0 /\ ULess(FULL_STEP, pos_diff)
        step == DIV_ROUND_CLOSEST(pos_diff, p.init_count + 1)
        mean == IF p.init_count = 0 THEN position
                ELSE IF is_negative THEN Sub32(last_avg, step)
                ELSE Add32(last_avg, step)
        count == U8(p.init_count + 1)
        s1 == [s EXCEPT !.pid_ctrl.encoder_offset = mean,
                        !.pid_ctrl.init_count = count]
    IN
    IF variance THEN
        Ret(s, <<>>, "Encoder Variance too large!  Check your calibration and magnet position.", loc)
    ELSE IF count >= PID_INIT_SAMPLES THEN
        Ret([s1 EXCEPT !.pid_ctrl.last_phase = 0,
                       !.pid_ctrl.last_sample_time = t.t1,
                       !.pid_ctrl.error = 0,
                       !.flags = SS_MODE_HPID],
            <<>>, "", [loc EXCEPT !.sample_time = t.t1])
    ELSE Ret(s1, <<>>, "", loc)

servo_stepper_mode_hpid_update(s, vs, position, t, ub) ==
    LET p == s.pid_ctrl
        sample_time == t.t1
        td == UShr(Sub32(sample_time, p.last_sample_time), TIME_SCALE_SHIFT)
        time_diff == IF td = 0 THEN 1 ELSE td
        pos == Sub32(position, p.encoder_offset)
        phase == position_to_phase(s, pos)
        last_phase == p.last_phase
        raw_diff == Sub32(phase, last_phase)
        bias == IF raw_diff > PHASE_CHANGE_MAX THEN -PHASE_BIAS
                ELSE IF raw_diff < -PHASE_CHANGE_MAX THEN PHASE_BIAS ELSE 0
        phase_diff == raw_diff + bias
        stp_pos == virtual_stepper_get_position(vs)
        move_diff == Mul32(Sub32(stp_pos, p.last_stp_pos), s.step_multiplier)
        delta == SSub(move_diff, phase_diff, ub)
        error == SAdd(p.error, delta, ub)
        iprod == SMul(error, time_diff, ub)
        isum == SAdd(p.integral, iprod, ub)
        integral == CONSTRAIN(isum, -FULL_STEP, FULL_STEP)
        pterm == SMul(p.Kp, error, ub)
        iterm == SMul(p.Ki, integral, ub)
        dprod == SMul(p.Kd, phase_diff, ub)
        dterm == SDiv(dprod, time_diff)
        sum1 == SAdd(pterm, iterm, ub)
        sum2 == SSub(sum1, dterm, ub)
        co == CONSTRAIN(SDiv(sum2, PID_SCALE_DIVISOR), -FULL_STEP, FULL_STEP)
        cur_scale ==
            Add32(UDiv(Mul32(ABS(co), Sub32(s.run_current_scale,
                                            s.hold_current_scale)), FULL_STEP),
                  s.hold_current_scale)
        next_phase == Add32(phase, co)
        ovf == \/ ~SubFits(move_diff, phase_diff)
               \/ ~AddFits(p.error, delta)
               \/ ~MulFits(error, time_diff)
               \/ ~AddFits(p.integral, iprod)
               \/ ~MulFits(p.Kp, error)
               \/ ~MulFits(p.Ki, integral)
               \/ ~MulFits(p.Kd, phase_diff)
               \/ ~AddFits(pterm, iterm)
               \/ ~SubFits(sum1, dterm)
    IN  Ret([s EXCEPT !.pid_ctrl.error = error,
                      !.pid_ctrl.integral = integral,
                      !.pid_ctrl.query_flag = 0,
                      !.pid_ctrl.last_phase = phase,
                      !.pid_ctrl.last_stp_pos = stp_pos,
                      !.pid_ctrl.last_sample_time = sample_time],
            <<Call("move_to_phase", next_phase, cur_scale)>>, "",
            [mode |-> SS_MODE_HPID, position |-> position,
             sample_time |-> sample_time, time_diff |-> time_diff,
             phase |-> phase, phase_diff |-> phase_diff,
             raw_diff |-> raw_diff, stp |-> stp_pos, move_diff |-> move_diff,
             err |-> error, cerr |-> error, co |-> co,
             cur_scale |-> cur_scale, next_phase |-> next_phase,
             ovf |-> ovf, pid_time |-> 0])

\* update() that reads the mode a second time after pid_init has run, and
\* goes on into the hybrid PID loop in the same call
RereadMode(r, vs, position, t, ub) ==
    IF r.ss.flags = SS_MODE_HPID
    THEN servo_stepper_mode_hpid_update(r.ss, vs, position, t, ub)
    ELSE r
servo_stepper_update_reread(s, vs, position, t, ub) ==
    CASE s.flags = SS_MODE_OPEN_LOOP ->
                servo_stepper_mode_open_loop(s, vs, position)
      [] s.flags = SS_MODE_TORQUE ->
                servo_stepper_mode_torque_update(s, vs, position)
      [] s.flags = SS_MODE_HPID ->
                servo_stepper_mode_hpid_update(s, vs, position, t, ub)
      [] s.flags = SS_MODE_PID_INIT ->
                RereadMode(servo_stepper_mode_pid_init(s, vs, position, t),
                           vs, position, t, ub)
      [] OTHER -> Ret(s, <<>>, "", [NoLocals EXCEPT !.mode = s.flags])

servo_stepper_update(s, vs, position, t, ub) ==
    LET mode == s.flags
    IN  CASE mode = SS_MODE_OPEN_LOOP ->
                servo_stepper_mode_open_loop(s, vs, position)
          [] mode = SS_MODE_TORQUE ->
                servo_stepper_mode_torque_update(s, vs, position)
          [] mode = SS_MODE_HPID ->
                servo_stepper_mode_hpid_update(s, vs, position, t, ub)
          [] mode = SS_MODE_PID_INIT ->
                servo_stepper_mode_pid_init(s, vs, position, t)
          [] OTHER -> Ret(s, <<>>, "", [NoLocals EXCEPT !.mode = mode])

----------------------------------------------------------------------------
(* the revision of src/unnamed/part_001, lines 1-303                       *)

PHASE_MAX == 51200

servo_stepper_mode_open_loop_p1(s, vs, position) ==
    LET vsp == virtual_stepper_get_position(vs)
        ph == Mul32(vsp, s.step_multiplier)
    IN  Ret(s, <<Call("set_phase", ph, s.run_current_scale)>>, "",
            [NoLocals EXCEPT !.mode = SS_MODE_OPEN_LOOP,
                             !.position = position, !.stp = ph,
                             !.next_phase = ph,
                             !.cur_scale = s.run_current_scale])

servo_stepper_mode_pid_init_p1(s, vs, position, t) ==
    Ret([s EXCEPT !.pid_ctrl.phase_offset = position_to_phase(s, position),
                  !.pid_ctrl.last_sample_time = t.t1,
                  !.flags = SS_MODE_HPID],
        <<>>, "",
        [NoLocals EXCEPT !.mode = SS_MODE_PID_INIT, !.position = position,
                         !.sample_time = t.t1])

servo_stepper_mode_hpid_update_p1(s, vs, position, t, ub) ==
    LET p == s.pid_ctrl
        sample_time == t.t1
        td == UShr(Sub32(sample_time, p.last_sample_time), TIME_SCALE_SHIFT)
        time_diff == IF td = 0 THEN 1 ELSE td
        phase == Sub32(position_to_phase(s, position), p.phase_offset)
        raw_diff == Sub32(phase, p.last_phase)
        bias == IF raw_diff > PHASE_MAX THEN -PHASE_BIAS
                ELSE IF raw_diff < -PHASE_MAX THEN PHASE_BIAS ELSE 0
        phase_diff == SAdd(raw_diff, bias, ub)
        stp_pos == Mul32(virtual_stepper_get_position(vs), s.step_multiplier)
        move_diff == Sub32(stp_pos, p.last_stp_pos)
        delta == SSub(move_diff, phase_diff, ub)
        stored == SAdd(p.error, delta, ub)
        \* Constrain the error to a full step
        error == CONSTRAIN(stored, -FULL_STEP, FULL_STEP)
        iprod == SMul(error, time_diff, ub)
        isum == SAdd(p.integral, iprod, ub)
        integral == CONSTRAIN(isum, -FULL_STEP, FULL_STEP)
        pterm == SMul(p.Kp, error, ub)
        iterm == SMul(p.Ki, integral, ub)
        dprod == SMul(p.Kd, phase_diff, ub)
        dterm == SDiv(dprod, time_diff)
        sum1 == SAdd(pterm, iterm, ub)
        sum2 == SSub(sum1, dterm, ub)
        co == CONSTRAIN(SDiv(sum2, PID_SCALE_DIVISOR), -FULL_STEP, FULL_STEP)
        cur_scale ==
            Add32(UDiv(Mul32(ABS(co), Sub32(s.run_current_scale,
                                            s.hold_current_scale)), FULL_STEP),
                  s.hold_current_scale)
        \* ABS(error) negates INT32_MIN: an overflow
        abs_stored == IF stored = Min32 THEN UBValue(ub, Min32)
                      ELSE ABS(stored)
        next_phase == IF abs_stored > 128 THEN Add32(phase, error)
                      ELSE stp_pos
        ovf == \/ ~AddFits(raw_diff, bias)
               \/ ~SubFits(move_diff, phase_diff)
               \/ ~AddFits(p.error, delta)
               \/ ~MulFits(error, time_diff)
               \/ ~AddFits(p.integral, iprod)
               \/ ~MulFits(p.Kp, error)
               \/ ~MulFits(p.Ki, integral)
               \/ ~MulFits(p.Kd, phase_diff)
               \/ ~AddFits(pterm, iterm)
               \/ ~SubFits(sum1, dterm)
               \/ stored = Min32
    IN  Ret([s EXCEPT !.pid_ctrl.error = stored,
                      !.pid_ctrl.integral = integral,
                      !.pid_ctrl.last_phase = phase,
                      !.pid_ctrl.last_stp_pos = stp_pos,
                      !.pid_ctrl.last_sample_time = sample_time],
            <<Call("set_phase", next_phase, cur_scale)>>, "",
            [mode |-> SS_MODE_HPID, position |-> position,
             sample_time |-> sample_time, time_diff |-> time_diff,
             phase |-> phase, phase_diff |-> phase_diff,
             raw_diff |-> raw_diff, stp |-> stp_pos, move_diff |-> move_diff,
             err |-> stored, cerr |-> error, co |-> co,
             cur_scale |-> cur_scale, next_phase |-> next_phase,
             ovf |-> ovf, pid_time |-> 0])

\* if (pid_time > max_loop_time) max_loop_time = pid_time
TrackLoopTime(r, pid_time) ==
    IF ULess(r.ss.pid_ctrl.max_loop_time, pid_time)
    THEN [r EXCEPT !.ss.pid_ctrl.max_loop_time = pid_time,
                   !.loc.pid_time = pid_time]
    ELSE [r EXCEPT !.loc.pid_time = pid_time]

servo_stepper_update_p1(s, vs, position, t, ub) ==
    LET mode == s.flags
    IN  CASE mode = SS_MODE_OPEN_LOOP ->
                servo_stepper_mode_open_loop_p1(s, vs, position)
          [] mode = SS_MODE_TORQUE ->
                servo_stepper_mode_torque_update(s, vs, position)
          [] mode = SS_MODE_HPID ->
                LET r == servo_stepper_mode_hpid_update_p1(s, vs, position,
                                                           t, ub)
                    pid_time == Sub32(t.t2, t.t0)
                IN  TrackLoopTime(r, pid_time)
          [] mode = SS_MODE_PID_INIT ->
                servo_stepper_mode_pid_init_p1(s, vs, position, t)
          [] OTHER -> Ret(s, <<>>, "", [NoLocals EXCEPT !.mode = mode])

\* update() of the revision that is built
Build_update(r, s, vs, position, t, ub) ==
    IF r = "head" THEN servo_stepper_update(s, vs, position, t, ub)
    ELSE servo_stepper_update_p1(s, vs, position, t, ub)

----------------------------------------------------------------------------
(* command handlers, as the statements they execute in order               *)

St(op, f, v) == [op |-> op, f |-> f, v |-> v]

\* set_disabled that does not store the mode
servo_stepper_set_disabled_no_flag ==
    << St("irq_disable", "", 0),
       St("drv", "disable", 0),
       St("irq_enable", "", 0) >>

servo_stepper_set_disabled ==
    << St("irq_disable", "", 0),
       St("set", "flags", SS_MODE_DISABLED),
       St("drv", "disable", 0),
       St("irq_enable", "", 0) >>

servo_stepper_set_open_loop_mode(args) ==
    << St("irq_disable", "", 0),
       St("drv", "reset", 0),
       St("vs_set", "", 0),
       St("set", "flags", SS_MODE_OPEN_LOOP),
       St("set", "run_current_scale", args[2]),
       St("set", "hold_current_scale", args[3]),
       St("irq_enable", "", 0) >>

\* set_hpid that enters hybrid_pid at once, without pid_init
servo_stepper_set_hpid_mode_direct(args) ==
    << St("irq_disable", "", 0),
       St("set", "run_current_scale", args[2]),
       St("set", "hold_current_scale", args[3]),
       St("drv", "reset", 0),
       St("setpid", "Kp", I16(args[4])),
       St("setpid", "Ki", I16(args[5])),
       St("setpid", "Kd", I16(args[6])),
       St("setpid", "init_count", 0),
       St("setpid", "last_phase", PID_INIT_HOLD),
       St("pid_load_vs", "last_stp_pos", 0),
       St("setpid", "error", 0),
       St("setpid", "integral", 0),
       St("set", "flags", SS_MODE_HPID),
       St("irq_enable", "", 0) >>

\* set_hpid that forgets to store the mode
servo_stepper_set_hpid_mode_no_flag(args) ==
    << St("irq_disable", "", 0),
       St("set", "run_current_scale", args[2]),
       St("set", "hold_current_scale", args[3]),
       St("drv", "reset", 0),
       St("setpid", "Kp", I16(args[4])),
       St("setpid", "Ki", I16(args[5])),
       St("setpid", "Kd", I16(args[6])),
       St("setpid", "init_count", 0),
       St("setpid", "last_phase", PID_INIT_HOLD),
       St("pid_load_vs", "last_stp_pos", 0),
       St("setpid", "error", 0),
       St("setpid", "integral", 0),
       St("irq_enable", "", 0) >>

\* set_hpid without its irq_disable() / irq_enable() pair
servo_stepper_set_hpid_mode_unmasked(args) ==
    << St("set", "run_current_scale", args[2]),
       St("set", "hold_current_scale", args[3]),
       St("drv", "reset", 0),
       St("setpid", "Kp", I16(args[4])),
       St("setpid", "Ki", I16(args[5])),
       St("setpid", "Kd", I16(args[6])),
       St("setpid", "init_count", 0),
       St("setpid", "last_phase", PID_INIT_HOLD),
       St("pid_load_vs", "last_stp_pos", 0),
       St("setpid", "error", 0),
       St("setpid", "integral", 0),
       St("set", "flags", SS_MODE_PID_INIT) >>

\* set_hpid that leaves the sample count of pid_init as it finds it
servo_stepper_set_hpid_mode_keep_count(args) ==
    << St("irq_disable", "", 0),
       St("set", "run_current_scale", args[2]),
       St("set", "hold_current_scale", args[3]),
       St("drv", "reset", 0),
       St("setpid", "Kp", I16(args[4])),
       St("setpid", "Ki", I16(args[5])),
       St("setpid", "Kd", I16(args[6])),
       St("setpid", "last_phase", PID_INIT_HOLD),
       St("pid_load_vs", "last_stp_pos", 0),
       St("setpid", "error", 0),
       St("setpid", "integral", 0),
       St("set", "flags", SS_MODE_PID_INIT),
       St("irq_enable", "", 0) >>

servo_stepper_set_hpid_mode(args) ==
    << St("irq_disable", "", 0),
       St("set", "run_current_scale", args[2]),
       St("set", "hold_current_scale", args[3]),
       St("drv", "reset", 0),
       St("setpid", "Kp", I16(args[4])),
       St("setpid", "Ki", I16(args[5])),
       St("setpid", "Kd", I16(args[6])),
       St("setpid", "init_count", 0),
       St("setpid", "last_phase", PID_INIT_HOLD),
       St("pid_load_vs", "last_stp_pos", 0),
       St("setpid", "error", 0),
       St("setpid", "integral", 0),
       St("set", "flags", SS_MODE_PID_INIT),
       St("irq_enable", "", 0) >>

servo_stepper_set_torque_mode(args) ==
    << St("irq_disable", "", 0),
       St("drv", "enable", 0),
       St("set", "flags", SS_MODE_TORQUE),
       St("set", "run_current_scale", args[2]),
       St("set", "excite_angle", args[3]),
       St("irq_enable", "", 0) >>

command_servo_stepper_set_mode(args) ==
    LET mode == U8(args[1])
    IN  CASE mode = 0 -> servo_stepper_set_disabled
          [] mode = 1 -> servo_stepper_set_open_loop_mode(args)
          [] mode = 2 -> servo_stepper_set_torque_mode(args)
          [] mode = 3 -> servo_stepper_set_hpid_mode(args)
          [] OTHER -> << St("shutdown", "Unknown Servo Mode", 0) >>

\* get_stats that sends its response without enabling interrupts again
command_servo_stepper_get_stats_no_enable(args) ==
    << St("irq_disable", "", 0),
       St("read", "error", 0),
       St("setpid", "query_flag", 1),
       St("sendf", "", args[0]) >>

command_servo_stepper_get_stats(args) ==
    << St("irq_disable", "", 0),
       St("read", "error", 0),
       St("setpid", "query_flag", 1),
       St("irq_enable", "", 0),
       St("sendf", "", args[0]) >>

servo_stepper_set_disabled_p1 ==
    << St("irq_disable", "", 0),
       St("set", "flags", SS_MODE_DISABLED),
       St("drv", "disable", 0),
       St("drv_last_phase", "update_last_phase", 0),
       St("irq_enable", "", 0) >>

servo_stepper_set_open_loop_mode_p1(args) ==
    << St("irq_disable", "", 0),
       St("drv", "enable", 0),
       St("set", "flags", SS_MODE_OPEN_LOOP),
       St("set", "run_current_scale", args[2]),
       St("set", "hold_current_scale", args[3]),
       St("irq_enable", "", 0) >>

servo_stepper_set_hpid_mode_p1(args) ==
    << St("irq_disable", "", 0),
       St("set", "run_current_scale", args[2]),
       St("set", "hold_current_scale", args[3]),
       St("vs_set", "", 0),
       St("drv", "reset", 0),
       St("setpid", "Kp", I16(args[4])),
       St("setpid", "Ki", I16(args[5])),
       St("setpid", "Kd", I16(args[6])),
       St("setpid", "last_phase", 0),
       St("setpid", "last_stp_pos", 0),
       St("setpid", "error", 0),
       St("setpid", "integral", 0),
       St("set", "flags", SS_MODE_PID_INIT),
       St("irq_enable", "", 0) >>

command_servo_stepper_set_mode_p1(args) ==
    LET mode == U8(args[1])
    IN  CASE mode = 0 -> servo_stepper_set_disabled_p1
          [] mode = 1 -> servo_stepper_set_open_loop_mode_p1(args)
          [] mode = 2 -> servo_stepper_set_torque_mode(args)
          [] mode = 3 -> servo_stepper_set_hpid_mode_p1(args)
          [] OTHER -> << St("shutdown", "Unknown Servo Mode", 0) >>

command_servo_stepper_get_stats_p1(args) ==
    << St("irq_disable", "", 0),
       St("read", "error", 0),
       St("read", "max_loop_time", 0),
       St("irq_enable", "", 0),
       St("sendf", "max_time", args[0]) >>

\* the handlers of the revision that is built
Build_set_mode(r, args) ==
    IF r = "head" THEN command_servo_stepper_set_mode(args)
    ELSE command_servo_stepper_set_mode_p1(args)
Build_get_stats(r, args) ==
    IF r = "head" THEN command_servo_stepper_get_stats(args)
    ELSE command_servo_stepper_get_stats_p1(args)

\* the machine as a handler sees it: the struct, the virtual stepper, the
\* interrupt mask, the driver calls so far, the shutdown message, the
\* handler's locals and the response sent
Exec(st, m) ==
    CASE st.op = "irq_disable" -> [m EXCEPT !.irq = FALSE]
      [] st.op = "irq_enable" -> [m EXCEPT !.irq = TRUE]
      [] st.op = "set" -> [m EXCEPT !.ss = [m.ss EXCEPT ![st.f] = st.v]]
      [] st.op = "setpid" ->
            [m EXCEPT !.ss = [m.ss EXCEPT !.pid_ctrl =
                                 [m.ss.pid_ctrl EXCEPT ![st.f] = st.v]]]
      [] st.op = "pid_load_vs" ->
            [m EXCEPT !.ss = [m.ss EXCEPT !.pid_ctrl =
                 [m.ss.pid_ctrl EXCEPT
                      ![st.f] = virtual_stepper_get_position(m.vs)]]]
      [] st.op = "vs_set" -> [m EXCEPT !.vs = st.v]
      [] st.op = "drv" ->
            [m EXCEPT !.calls = Append(m.calls, Call(st.f, st.v, 0))]
      [] st.op = "drv_last_phase" ->
            [m EXCEPT !.calls = Append(m.calls,
                 Call(st.f, Mul32(virtual_stepper_get_position(m.vs),
                                  m.ss.step_multiplier), 0))]
      [] st.op = "read" ->
            [m EXCEPT !.loc = [m.loc EXCEPT ![st.f] = m.ss.pid_ctrl[st.f]]]
      [] st.op = "sendf" ->
            \* "servo_stepper_stats oid=%c error=%i", with " max_time=%u" in
            \* the revision that keeps max_loop_time
            [m EXCEPT !.resp =
                 IF st.f = "max_time"
                 THEN [oid |-> st.v, error |-> m.loc.error,
                       max_time |-> m.loc.max_loop_time]
                 ELSE [oid |-> st.v, error |-> m.loc.error]]
      [] st.op = "shutdown" -> [m EXCEPT !.sd = st.f]

\* the command context runs until it shuts down, returns, or has executed
\* a statement that leaves interrupts enabled (where update() may preempt)
RECURSIVE RunBlock(_, _, _)
RunBlock(prog, pc, m) ==
    IF pc > Len(prog) THEN [m |-> m, pc |-> pc]
    ELSE LET m2 == Exec(prog[pc], m)
         IN  IF m2.sd # "" THEN [m |-> m2, pc |-> pc]
             ELSE IF m2.irq THEN [m |-> m2, pc |-> pc + 1]
             ELSE RunBlock(prog, pc + 1, m2)

----------------------------------------------------------------------------
(* src/stm32/dac.c: gpio_dac_setup.  A 32-bit value is a pair <<hi, lo>>   *)
(* of 16-bit halves here, so that its bits can be masked.                  *)

\* GPIO('A' + port, num) of the stm32 gpio.h
GPIO(port, num) == port * 16 + num
dac_pins == << GPIO(0, 4), GPIO(0, 5) >>
ARRAY_SIZE(t) == Len(t)

RECURSIVE And16(_, _, _)
And16(x, y, n) ==
    IF n = 0 THEN 0
    ELSE (x % 2) * (y % 2) + 2 * And16(x \div 2, y \div 2, n - 1)
RECURSIVE Or16(_, _, _)
Or16(x, y, n) ==
    IF n = 0 THEN 0
    ELSE (IF x % 2 = 1 \/ y % 2 = 1 THEN 1 ELSE 0)
         + 2 * Or16(x \div 2, y \div 2, n - 1)
And32h(a, b) == << And16(a[1], b[1], 16), And16(a[2], b[2], 16) >>
Or32h(a, b) == << Or16(a[1], b[1], 16), Or16(a[2], b[2], 16) >>
Not32h(a) == << 65535 - a[1], 65535 - a[2] >>

\* 0xffff << (16 * chan) in int: for chan = 1 the result is not an int, which
\* is undefined, with the outcome chosen by ub
ShiftMask(chan, ub) ==
    IF chan = 0 THEN << 0, 65535 >>
    ELSE CASE ub = "wrap" -> << 65535, 0 >>
           [] ub = "min" -> << 32768, 0 >>
           [] ub = "max" -> << 32767, 65535 >>
\* 1 << (16 * chan)
ShiftBit(chan) == IF chan = 0 THEN << 0, 1 >> ELSE << 1, 0 >>

\* no gpio_dac_setup call is running and the control register holds cr
DacIdle(cr) ==
    [pc |-> "idle", pin |-> 0, chan |-> 0, reads |-> {}, CR |-> cr,
     cr0 |-> cr, calls |-> <<>>, ncall |-> 0]

\* the loop without the test of chan against the size of the table
dac_find_pin_no_bound(d) ==
    LET d1 == [d EXCEPT !.reads = @ \cup {d.chan}]
        entry == IF d.chan < ARRAY_SIZE(dac_pins)
                 THEN dac_pins[d.chan + 1] ELSE d.pin
    IN  IF entry = d.pin
        THEN [d |-> [d1 EXCEPT !.pc = "enable"], sd |-> ""]
        ELSE [d |-> [d1 EXCEPT !.chan = @ + 1], sd |-> ""]

\* one pass of the loop that finds pin in the table: d is the call, the
\* result the call after the pass and the shutdown message ("" for none)
dac_find_pin(d) ==
    IF d.chan >= ARRAY_SIZE(dac_pins)
    THEN [d |-> [d EXCEPT !.pc = "halt"], sd |-> "Not a valid DAC pin."]
    ELSE LET d1 == [d EXCEPT !.reads = @ \cup {d.chan}]
         IN  IF dac_pins[d.chan + 1] = d.pin
             THEN [d |-> [d1 EXCEPT !.pc = "enable"], sd |-> ""]
             ELSE [d |-> [d1 EXCEPT !.chan = @ + 1], sd |-> ""]

\* the part of gpio_dac_setup after the loop, up to its return
dac_enable(d, ub) ==
    LET cleared == And32h(d.CR, Not32h(ShiftMask(d.chan, ub)))
    IN  [d EXCEPT !.CR = Or32h(cleared, ShiftBit(d.chan)),
                  !.calls = << Call("enable_pclock", 0, 0),
                               Call("gpio_peripheral", d.pin, 0) >>,
                  !.pc = "return"]

----------------------------------------------------------------------------
(* inputs the environment may present.  A behaviour runs one scenario:     *)
(*   "modes"  the host walks the mode state machine with every mode code,  *)
(*            the encoder and the clock stand still;                       *)
(*   "pid"    the host enters closed loop once, with several gain and      *)
(*            current settings, and the encoder, the clock and the virtual *)
(*            stepper move;                                                *)
(*   "init"   the host enters closed loop and the encoder reads up to      *)
(*            one sample beyond a full step off its first reading while    *)
(*            pid_init samples it; a second command may interrupt the      *)
(*            sampling early;                                              *)
(*   "wrap"   the host enters one mode and the encoder and the virtual     *)
(*            stepper cross the ends of the 24-bit phase and of uint32_t;  *)
(*   "zero"   the host has configured full_steps_per_rotation = 0 and      *)
(*            enters one mode;                                             *)
(*   "phase"  the host has configured one of several                       *)
(*            full_steps_per_rotation and enters torque mode, where every  *)
(*            update() converts the encoder position to a phase;           *)
(*   "rest"   the host enters closed loop once, the encoder reads the same *)
(*            position in every sample, and the step timer moves the       *)
(*            virtual stepper at any time, during pid_init too.            *)

MaxCmds == 2          \* commands per behaviour in scenario "modes"
MaxPidCmds == 1       \* commands per behaviour in the other scenarios
MaxUpdates == 2       \* hybrid_pid updates per behaviour
MaxPrerollCmd == 1    \* a command interrupts the pre-roll only this early
MaxSampleCmd == 2     \* a second command interrupts the sampling this early

Args(oid, mode, run, flex, kp, ki, kd) ==
    [i \in 0..6 |-> <<oid, mode, run, flex, kp, ki, kd>>[i + 1]]

ConfigArgs == { [i \in 0..4 |-> <<0, 0, 0, 200, 100>>[i + 1]] }
\* config_servo_stepper with full_steps_per_rotation=0
ZeroConfigArgs == { [i \in 0..4 |-> <<0, 0, 0, 0, 100>>[i + 1]] }

\* config_servo_stepper with several full_steps_per_rotation
PhaseSteps == {1, 200, 256, 257, 40000}
PhaseConfigArgs ==
    { [i \in 0..4 |-> <<0, 0, 0, f, 100>>[i + 1]] : f \in PhaseSteps }
ConfigOf(sc) ==
    IF sc = "zero" THEN ZeroConfigArgs
    ELSE IF sc = "phase" THEN PhaseConfigArgs
    ELSE ConfigArgs

Scenarios == {"modes", "pid", "init", "wrap", "zero", "rest"}

SetModeArgs(sc) ==
    IF sc = "modes" THEN
        { Args(0, 0, 0, 0, 0, 0, 0),
          Args(0, 1, 200, 50, 0, 0, 0),
          Args(0, 2, 200, 64, 0, 0, 0),
          Args(0, 3, 200, 50, 1024, 0, 0),
          Args(0, 4, 200, 50, 0, 0, 0),
          Args(0, 256, 200, 50, 0, 0, 0) }
    ELSE IF sc = "pid" THEN
        { Args(0, 3, 200, 50, 1024, 0, 0),
          Args(0, 3, 200, 50, 0, 1024, 1024),
          Args(0, 3, 255, 0, 32767, 32767, -32768),
          Args(0, 3, 16777266, 50, 4096, 0, 0) }
    ELSE IF sc = "init" THEN
        { Args(0, 3, 200, 50, 1024, 0, 0) }
    ELSE IF sc = "phase" THEN
        { Args(0, 2, 200, 0, 0, 0, 0) }
    ELSE IF sc = "rest" THEN
        { Args(0, 3, 200, 50, 1024, 0, 0),
          Args(0, 3, 200, 50, -300, 1024, 1024) }
    ELSE IF sc = "zero" THEN
        { Args(0, 1, 200, 50, 0, 0, 0),
          Args(0, 2, 200, 64, 0, 0, 0),
          Args(0, 3, 200, 50, 1024, 0, 0) }
    ELSE
        \* flex = 0xffffffff: an excite_angle of one phase unit backwards
        { Args(0, 1, 200, 50, 0, 0, 0),
          Args(0, 2, 200, -1, 0, 0, 0),
          Args(0, 3, 200, 50, 1024, 0, 0) }

\* the rotor rests (and the encoder jitters) while pid_init samples it
\* with full_steps_per_rotation = 200, position 21474824 maps to the phase
\* 2^24 - 10 and 21474849 to the phase 10; 66537 is 65537 past 1000, a
\* phase change of PHASE_CHANGE_MAX + 1
WrapPositions == {1000, 66537, 21474824, 21474849, 21475824, 21475849}
\* 42949673 * 100 = 2^32 + 4, 21474836 * 100 = 2^31 - 48
WrapVsPositions == {0, 42949673, 21474836}

\* the first encoder positions, the last positions p with
\* full_steps_per_rotation * (p + 1) < 2^24, and positions whose product
\* with full_steps_per_rotation passes 2^31 and 2^32 (-1 is 0xffffffff)
PhasePositions ==
    (0..300) \cup {418, 419, 65279, 65280, 65534, 65535, 83884, 83885, 83886,
                   16777214, 16777215, 21474849, -1}

EncPositions(sc, mode) ==
    IF sc \in {"modes", "zero"} THEN {1000}
    ELSE IF sc = "phase" THEN PhasePositions
    ELSE IF sc = "rest" THEN {10000}
    ELSE IF sc = "pid" THEN
        IF mode = SS_MODE_PID_INIT THEN {1000, 1002, 1400}
        ELSE {1000, 1100, 1400}
    ELSE IF sc = "init" THEN
        IF mode = SS_MODE_PID_INIT THEN {743, 744, 1000, 1256, 1257, -1, 1}
        ELSE {1000, 1003}
    ELSE
        IF mode = SS_MODE_PID_INIT THEN {1000} ELSE WrapPositions
\* clock readings: -1024 is 0xfffffc00, 1024 ticks before the clock wraps
Times(sc) ==
    IF sc = "pid" THEN {0, -1024}
    ELSE IF sc = "rest" THEN {0, -1024, 500, 2048}
    ELSE {0}
VsPositions(sc) ==
    IF sc \in {"modes", "rest"} THEN {0, 1}
    ELSE IF sc = "pid" THEN {0, 1, 10000}
    ELSE IF sc \in {"init", "zero", "phase"} THEN {0}
    ELSE WrapVsPositions
LoopTicks(sc) == IF sc = "pid" THEN {100, 300} ELSE {100}
\* whether the virtual stepper may have moved when update() runs in this
\* mode: always where update() reads it, and during pid_init in "rest"
StepTimerMoves(sc, mode) ==
    \/ mode \in {SS_MODE_OPEN_LOOP, SS_MODE_HPID}
    \/ sc = "rest" /\ mode = SS_MODE_PID_INIT
CmdBudget(sc) == IF sc \in {"modes", "init"} THEN MaxCmds ELSE MaxPidCmds

NoLoc == [error |-> 0, max_loop_time |-> 0]
NoResp == [oid |-> -1, error |-> 0, max_time |-> 0]
Idle == [prog |-> <<>>, pc |-> 1, loc |-> NoLoc]
NoReq == [kind |-> "", args |-> Args(0, 0, 0, 0, 0, 0, 0), from |-> 0]
Req(kind, args) == [kind |-> kind, args |-> args, from |-> ss.flags]

----------------------------------------------------------------------------
(* the state machine                                                       *)

NoInit == [stp |-> 0, biased |-> FALSE]

InitIn(R, S) ==
    /\ rev \in R
    /\ scn \in S
    /\ \E a \in ConfigOf(scn) : ss = command_config_servo_stepper(a)
    /\ vs_position = 0
    /\ irq_enabled = TRUE
    /\ cmd = Idle
    /\ shutdown_msg = ""
    /\ drv = <<>>
    /\ upd = NoLocals
    /\ resp = NoResp
    /\ req = NoReq
    /\ ncmd = 0
    /\ nupd = 0
    /\ samples = {}
    /\ since_init = NoInit
    /\ dac = DacIdle(<<0, 0>>)

InitRev(R) == InitIn(R, Scenarios)

Init == InitRev({"head"})

Running == shutdown_msg = ""

\* the host sends its next command at any time, except that it interrupts
\* the pre-roll of pid_init only in its first MaxPrerollCmd update() calls;
\* in the scenario "init" its second command interrupts the sampling of
\* pid_init, after at most MaxSampleCmd samples
HostMayCommand ==
    /\ Running /\ cmd = Idle /\ ncmd < CmdBudget(scn)
    /\ (ss.flags = SS_MODE_PID_INIT /\ ss.pid_ctrl.last_phase # 0)
           => PID_INIT_HOLD - ss.pid_ctrl.last_phase <= MaxPrerollCmd
    /\ (scn = "init" /\ ncmd >= MaxPidCmds)
           => /\ ss.flags = SS_MODE_PID_INIT
              /\ ss.pid_ctrl.init_count \in 1..MaxSampleCmd

ReadsVs(prog) ==
    \E i \in 1..Len(prog) : prog[i].op \in {"pid_load_vs", "drv_last_phase"}

\* the command context executes prog from pc to its next preemption point;
\* vs is where the step timer has moved the virtual stepper by then
RunCmd(prog, pc, loc, calls0, vs) ==
    LET m0 == [ss |-> ss, vs |-> vs, irq |-> irq_enabled,
               calls |-> calls0, sd |-> "", loc |-> loc, resp |-> resp]
        r == RunBlock(prog, pc, m0)
    IN  /\ ss' = r.m.ss
        /\ vs_position' = r.m.vs
        /\ irq_enabled' = r.m.irq
        /\ shutdown_msg' = r.m.sd
        /\ drv' = r.m.calls
        /\ resp' = r.m.resp
        /\ cmd' = IF r.pc > Len(prog) /\ r.m.sd = "" THEN Idle
                  ELSE [prog |-> prog, pc |-> r.pc, loc |-> r.m.loc]
        /\ upd' = NoLocals

\* the host sends servo_stepper_set_mode
SetMode ==
    /\ HostMayCommand
    /\ \E args \in SetModeArgs(scn) :
         LET prog == Build_set_mode(rev, args)
         IN  \E vs \in (IF ReadsVs(prog) THEN VsPositions(scn)
                        ELSE {vs_position}) :
                 /\ RunCmd(prog, 1, NoLoc, <<>>, vs)
                 /\ req' = Req("set_mode", args)
    /\ ncmd' = ncmd + 1
    /\ UNCHANGED <<rev, scn, nupd, samples, since_init, dac>>

\* the host sends servo_stepper_get_stats
GetStats ==
    /\ HostMayCommand
    /\ RunCmd(Build_get_stats(rev, Args(0, 0, 0, 0, 0, 0, 0)),
              1, NoLoc, <<>>, vs_position)
    /\ req' = Req("get_stats", Args(0, 0, 0, 0, 0, 0, 0))
    /\ ncmd' = ncmd + 1
    /\ UNCHANGED <<rev, scn, nupd, samples, since_init, dac>>

\* the command context resumes after a preemption point
CmdStep ==
    /\ Running /\ cmd # Idle
    /\ RunCmd(cmd.prog, cmd.pc, cmd.loc, drv, vs_position)
    /\ UNCHANGED <<rev, scn, req, ncmd, nupd, samples, since_init, dac>>

\* this update() call is one in which pid_init reads the encoder position
TakesSample ==
    /\ ss.flags = SS_MODE_PID_INIT
    /\ rev = "head" => ss.pid_ctrl.last_phase = 0
\* the samples that count in the mean when one more is taken: the first
\* sample of an init replaces the mean
EarlierSamples ==
    IF rev = "head" /\ ss.pid_ctrl.init_count # 0 THEN samples ELSE {}

\* the timer interrupt calls servo_stepper_update with an encoder position;
\* vs is where the step timer has moved the virtual stepper by then
Update ==
    /\ Running /\ irq_enabled
    /\ ss.flags = SS_MODE_HPID => nupd < MaxUpdates
    /\ \E position \in EncPositions(scn, ss.flags), t1 \in Times(scn),
          vs \in (IF StepTimerMoves(scn, ss.flags)
                  THEN VsPositions(scn) ELSE {vs_position}),
          d \in (IF rev = "p1" /\ ss.flags = SS_MODE_HPID
                 THEN LoopTicks(scn) ELSE {0}) :
         LET t == [t0 |-> t1, t1 |-> t1, t2 |-> Add32(t1, d)]
             w == Build_update(rev, ss, vs, position, t, "wrap")
         IN  \E r \in (IF w.loc.ovf
                       THEN {Build_update(rev, ss, vs, position, t, ub) :
                                ub \in UBOutcomes}
                       ELSE {w}) :
                   /\ ss' = r.ss
                   /\ vs_position' = vs
                   /\ drv' = r.calls
                   /\ shutdown_msg' = r.sd
                   /\ upd' = r.loc
                   /\ samples' = IF TakesSample /\ r.sd = ""
                                 THEN EarlierSamples \cup {position}
                                 ELSE samples
                   /\ since_init' =
                         IF ss.flags = SS_MODE_PID_INIT
                            /\ r.ss.flags = SS_MODE_HPID
                         THEN [stp |-> r.ss.pid_ctrl.last_stp_pos,
                               biased |-> FALSE]
                         ELSE IF ss.flags = SS_MODE_HPID
                         THEN [since_init EXCEPT !.biased =
                                  @ \/ r.loc.phase_diff # r.loc.raw_diff]
                         ELSE since_init
    /\ nupd' = IF ss.flags = SS_MODE_HPID THEN nupd + 1 ELSE nupd
    /\ UNCHANGED <<rev, scn, irq_enabled, cmd, resp, req, ncmd, dac>>

Next == SetMode \/ GetStats \/ CmdStep \/ Update

Spec == Init /\ [][Next]_vars

InitP1 == InitRev({"p1"})
SpecP1 == InitP1 /\ [][Next]_vars

InitAll == InitRev({"head", "p1"})
SpecAll == InitAll /\ [][Next]_vars

\* both builds, converting encoder positions to phases in torque mode
InitPhase == InitIn({"head", "p1"}, {"phase"})
SpecPhase == InitPhase /\ [][Next]_vars

\* an update() call made while the instance is in pid_init
InitUpdate == ss.flags = SS_MODE_PID_INIT /\ Update
\* the timer interrupt keeps calling update() while interrupts are enabled,
\* and a command handler that has started runs on to its end
SpecLive == Init /\ [][Next]_vars /\ WF_vars(InitUpdate) /\ WF_vars(CmdStep)

\* pins gpio_dac_setup is called with: those of ports A to C, pins whose low
\* byte is in the table (260 = 0x104), and 0xffffffff
DacPinInputs == (0..47) \cup {260, 261, -1}
\* what the control register of the DAC holds before the first call
DacResetCR == { <<0, 0>>, <<1, 1>>, <<65535, 65535>> }
MaxDacSetups == 2

\* gpio_dac_setup(pin) is called
DacSetup ==
    /\ Running /\ dac.pc = "idle" /\ dac.ncall < MaxDacSetups
    /\ \E pin \in DacPinInputs :
          dac' = [dac EXCEPT !.pc = "loop", !.pin = pin, !.chan = 0,
                             !.reads = {}, !.calls = <<>>, !.cr0 = dac.CR,
                             !.ncall = @ + 1]
    /\ UNCHANGED <<rev, scn, ss, vs_position, irq_enabled, cmd, shutdown_msg,
                   drv, upd, resp, req, ncmd, nupd, samples, since_init>>

\* one pass of its loop
DacFindPin ==
    /\ Running /\ dac.pc = "loop"
    /\ dac' = dac_find_pin(dac).d
    /\ shutdown_msg' = dac_find_pin(dac).sd
    /\ UNCHANGED <<rev, scn, ss, vs_position, irq_enabled, cmd, drv, upd,
                   resp, req, ncmd, nupd, samples, since_init>>

\* it enables the channel
DacEnable ==
    /\ Running /\ dac.pc = "enable"
    /\ \E ub \in (IF dac.chan = 0 THEN {"wrap"} ELSE UBOutcomes) :
          dac' = dac_enable(dac, ub)
    /\ UNCHANGED <<rev, scn, ss, vs_position, irq_enabled, cmd, shutdown_msg,
                   drv, upd, resp, req, ncmd, nupd, samples, since_init>>

\* it returns dac.chan
DacReturn ==
    /\ Running /\ dac.pc = "return"
    /\ dac' = [dac EXCEPT !.pc = "idle"]
    /\ UNCHANGED <<rev, scn, ss, vs_position, irq_enabled, cmd, shutdown_msg,
                   drv, upd, resp, req, ncmd, nupd, samples, since_init>>

NextDac == DacSetup \/ DacFindPin \/ DacEnable \/ DacReturn

InitDac ==
    /\ rev = "head"
    /\ scn = "dac"
    /\ \E a \in ConfigArgs : ss = command_config_servo_stepper(a)
    /\ vs_position = 0
    /\ irq_enabled = TRUE
    /\ cmd = Idle
    /\ shutdown_msg = ""
    /\ drv = <<>>
    /\ upd = NoLocals
    /\ resp = NoResp
    /\ req = NoReq
    /\ ncmd = 0
    /\ nupd = 0
    /\ samples = {}
    /\ since_init = NoInit
    /\ \E cr \in DacResetCR : dac = DacIdle(cr)

\* boards that set up their DAC channels
SpecDac == InitDac /\ [][NextDac]_vars

----------------------------------------------------------------------------
(* properties                                                              *)

\* the last step was an update() that ran the hybrid PID loop
HpidRan == upd.mode = SS_MODE_HPID

(* C1: in hybrid_pid mode, after every update() call, whatever the encoder *)
(* positions, clock values, commanded positions and gains were, the stored *)
(* integral satisfies -FULL_STEP <= integral <= FULL_STEP.                 *)
C1_IntegralBounded ==
    HpidRan => /\ ss.pid_ctrl.integral >= -FULL_STEP
               /\ ss.pid_ctrl.integral <= FULL_STEP

\* an update whose error alone exceeds the limit left the integral at it
C1_Witness ==
    /\ HpidRan
    /\ upd.cerr > 2 * FULL_STEP
    /\ ss.pid_ctrl.integral = FULL_STEP

\* the last step was a servo_stepper_set_mode command, which has run to
\* its return or to its shutdown
SetModeRan == req.kind = "set_mode" /\ upd = NoLocals
\* this step is a servo_stepper_set_mode command
SetModeStep == ncmd' = ncmd + 1 /\ req'.kind = "set_mode"
\* this step is an update() call
UpdateStep == upd'.mode # -1

C3_BadTransitionShutsDown ==
    [][(SetModeStep /\ req'.args[1] = 3
          /\ ss.flags \in {SS_MODE_TORQUE, SS_MODE_PID_INIT, SS_MODE_HPID})
          => /\ shutdown_msg' = "PID mode must transition from open-loop"
             /\ ss' = ss]_vars

C5_UnknownModeShutsDown ==
    [][(SetModeStep /\ req'.args[1] \notin {0, 1, 2, 3})
          => /\ shutdown_msg' = "Unknown Servo Mode"
             /\ ss' = ss
             /\ vs_position' = vs_position
             /\ drv' = <<>>]_vars

\* a statement that stores into the control block or the virtual stepper
IsStore(st) == st.op \in {"set", "setpid", "pid_load_vs", "vs_set"}
\* the command context stands between two stores of its handler
BetweenStores ==
    /\ cmd # Idle
    /\ \E i \in 1..(cmd.pc - 1) : IsStore(cmd.prog[i])
    /\ \E i \in cmd.pc..Len(cmd.prog) : IsStore(cmd.prog[i])
\* what set_hpid leaves behind, as the next update() must find it
HpidResetDone ==
    /\ ss.pid_ctrl.Kp = I16(req.args[4])
    /\ ss.pid_ctrl.Ki = I16(req.args[5])
    /\ ss.pid_ctrl.Kd = I16(req.args[6])
    /\ ss.pid_ctrl.error = 0
    /\ ss.pid_ctrl.integral = 0
    /\ ss.run_current_scale = req.args[2]
    /\ ss.hold_current_scale = req.args[3]
    /\ rev = "head" => /\ ss.pid_ctrl.init_count = 0
                       /\ ss.pid_ctrl.last_phase = PID_INIT_HOLD

(* C6: update() preempts the command context wherever interrupts are       *)
(* enabled, yet never runs between two stores of one set_mode command: it  *)
(* observes the state before the command or the state after it; the first  *)
(* update() after set_hpid finds mode = pid_init with the gains, the       *)
(* counters, error and integral all reset by that command.                 *)
C6_NoTornUpdate ==
    [][UpdateStep
          => /\ ~BetweenStores
             /\ (SetModeRan /\ ss.flags = SS_MODE_PID_INIT) => HpidResetDone
      ]_vars

\* the first update() after set_hpid has run, on the reset state
C6_Witness ==
    /\ upd.mode = SS_MODE_PID_INIT
    /\ rev = "head"
    /\ ss.pid_ctrl.last_phase = PID_INIT_HOLD - 1
    /\ req.kind = "set_mode" /\ req.from = SS_MODE_OPEN_LOOP

(* C7: in every hybrid_pid update the control output co that goes into the *)
(* current scaling satisfies -FULL_STEP <= co <= FULL_STEP, for all int16  *)
(* gains and all inputs, a one-sample jump of the commanded position from  *)
(* 0 to 10000 with Kd = 1024 included.                                     *)
C7_OutputBounded ==
    HpidRan => /\ upd.co >= -FULL_STEP
               /\ upd.co <= FULL_STEP

\* the commanded position jumped from 0 to 10000 in one sample, Kd = 1024
C7_Witness ==
    /\ HpidRan
    /\ ss.pid_ctrl.Kd = 1024
    /\ vs_position = 10000
    /\ upd.move_diff = 10000 * ss.step_multiplier
    /\ upd.co \in {-FULL_STEP, FULL_STEP}

\* the phase and the current scale of the driver call the update() made
DrvPhase == drv[1].a
DrvScale == drv[1].b
\* run_current_scale >= hold_current_scale, as uint32_t
RunAtLeastHold == ~ULess(ss.run_current_scale, ss.hold_current_scale)
CurrentWithinRange ==
    /\ ~ULess(DrvScale, ss.hold_current_scale)
    /\ ~ULess(ss.run_current_scale, DrvScale)

(* C8: in every hybrid_pid update with run_current_scale >=                *)
(* hold_current_scale the current scale passed to the driver lies in       *)
(* hold_current_scale .. run_current_scale; it equals hold_current_scale   *)
(* when co = 0 and run_current_scale when |co| = FULL_STEP.                *)
C8_CurrentRange ==
    (HpidRan /\ RunAtLeastHold)
      => /\ CurrentWithinRange
         /\ upd.co = 0 => DrvScale = ss.hold_current_scale
         /\ upd.co \in {-FULL_STEP, FULL_STEP}
               => DrvScale = ss.run_current_scale

(* C8, amended: as C8, but the current scale equals run_current_scale at   *)
(* |co| = FULL_STEP only if run_current_scale - hold_current_scale < 2^24, *)
(* where the 32-bit product |co| * (run - hold) does not wrap.             *)
C8_CurrentRangeAmended ==
    (HpidRan /\ RunAtLeastHold)
      => /\ CurrentWithinRange
         /\ upd.co = 0 => DrvScale = ss.hold_current_scale
         /\ ( /\ upd.co \in {-FULL_STEP, FULL_STEP}
              /\ ULess(Sub32(ss.run_current_scale, ss.hold_current_scale),
                       2^24) )
               => DrvScale = ss.run_current_scale

\* full negative output drives the run current
C8_Witness ==
    /\ HpidRan
    /\ upd.co = -FULL_STEP
    /\ ss.run_current_scale = 255 /\ ss.hold_current_scale = 0
    /\ DrvScale = 255

\* stp: the virtual stepper position times step_multiplier
StpPhase == Mul32(vs_position, ss.step_multiplier)

(* C9: in a hybrid_pid update, when the accumulated error after this       *)
(* sample satisfies |error| <= 128, the phase passed to the driver is      *)
(* exactly stp, whatever the measured encoder phase and co are.            *)
C9_ShortcutPhase ==
    (HpidRan /\ upd.err >= -128 /\ upd.err <= 128) => DrvPhase = StpPhase

(* C10: in a hybrid_pid update, when the accumulated error after this      *)
(* sample satisfies |error| > 128, the phase passed to the driver is the   *)
(* measured phase plus the clamped control output co.                      *)
C10_ClosedLoopPhase ==
    (HpidRan /\ (upd.err < -128 \/ upd.err > 128))
      => DrvPhase = Add32(upd.phase, upd.co)

\* distance of two uint32_t encoder positions on the 32-bit circle
CircDist(a, b) ==
    LET d == Sub32(a, b)
    IN  IF d = Min32 THEN Max32 ELSE IF d < 0 THEN -d ELSE d
\* this step is an update() that takes a sample into the running mean of
\* pid_init: the pre-roll is over and a first sample has set the mean
SampleStep ==
    /\ UpdateStep /\ rev = "head"
    /\ ss.flags = SS_MODE_PID_INIT
    /\ ss.pid_ctrl.last_phase = 0
    /\ ss.pid_ctrl.init_count # 0
EncoderVarianceMsg ==
    "Encoder Variance too large!  Check your calibration and magnet position."

(* C11: while pid_init samples, a sample more than one full step (256)     *)
(* away from the running mean, above it or below it, raises the shutdown   *)
(* "Encoder Variance too large..." in that update() call and the mode      *)
(* never becomes hybrid_pid from that init (nothing runs after a           *)
(* shutdown); a sample within 256 of the running mean raises no shutdown.  *)
C11_VarianceShutdown ==
    [][ /\ SampleStep =>
              IF CircDist(upd'.position, ss.pid_ctrl.encoder_offset) > FULL_STEP
              THEN /\ shutdown_msg' = EncoderVarianceMsg
                   /\ ss' = ss
              ELSE shutdown_msg' = ""
        /\ ~Running => /\ ss' = ss
                       /\ shutdown_msg' = shutdown_msg ]_vars

\* a sample 257 below the running mean has shut the machine down
C11_Witness ==
    /\ shutdown_msg = EncoderVarianceMsg
    /\ upd.mode = SS_MODE_PID_INIT
    /\ ss.flags = SS_MODE_PID_INIT
    /\ ss.pid_ctrl.encoder_offset = 1000
    /\ upd.position = 743

\* the last step was the update() call that completed pid_init
InitCompleted == upd.mode = SS_MODE_PID_INIT /\ ss.flags = SS_MODE_HPID

(* C12: the update() call that completes pid_init sets the phase offset    *)
(* from the mean of the samples (the single sample, where pid_init takes   *)
(* one), leaves last_phase, last_stp_pos, integral and error equal to 0,   *)
(* sets last_sample_time to the clock value read in that call and sets     *)
(* mode = hybrid_pid, all in that one call.                                *)
C12_InitCompletion ==
    InitCompleted
      => /\ rev = "p1" => ss.pid_ctrl.phase_offset
                             = position_to_phase(ss, upd.position)
         /\ ss.pid_ctrl.last_phase = 0
         /\ ss.pid_ctrl.last_stp_pos = 0
         /\ ss.pid_ctrl.integral = 0
         /\ ss.pid_ctrl.error = 0
         /\ ss.pid_ctrl.last_sample_time = upd.sample_time

(* C13: in a hybrid_pid update, whenever the raw signed difference         *)
(* phase - last_phase is greater than PHASE_MAX (51200) or less than       *)
(* -PHASE_MAX, the corrected d_phase that goes into the error has a        *)
(* magnitude strictly less than 2^24 - PHASE_MAX.                          *)
C13_WrapCorrected ==
    (HpidRan /\ (upd.raw_diff > PHASE_MAX \/ upd.raw_diff < -PHASE_MAX))
      => /\ upd.phase_diff < 2^24 - PHASE_MAX
         /\ upd.phase_diff > -(2^24 - PHASE_MAX)

\* the smallest raw difference that is corrected: the bound is tight
C13_Witness ==
    /\ HpidRan
    /\ upd.raw_diff = PHASE_MAX + 1
    /\ upd.phase_diff = -(2^24 - PHASE_MAX - 1)

\* this step is an update() that runs the hybrid PID loop
HpidStep == UpdateStep /\ ss.flags = SS_MODE_HPID
\* the phase of the encoder position itself, in 0 .. 2^24 - 1: the build
\* that keeps a phase offset has subtracted it from the phase it stores
EncPhase(phase) ==
    IF rev = "head" THEN phase ELSE Add32(phase, ss.pid_ctrl.phase_offset)

(* C14: when the encoder-derived phase crosses the 24-bit wrap between two *)
(* consecutive hybrid_pid samples, from 2^24 - a to b or from b to         *)
(* 2^24 - a with a + b <= PHASE_MAX, the d_phase accumulated into error is *)
(* the true signed movement +(a + b) or -(a + b).                          *)
C14_WrapAbsorbed ==
    [][HpidStep =>
         LET L == EncPhase(ss.pid_ctrl.last_phase)
             P == EncPhase(upd'.phase)
             up == /\ L >= 2^24 - PHASE_MAX /\ L < 2^24
                   /\ P >= 0 /\ P <= PHASE_MAX
                   /\ (2^24 - L) + P <= PHASE_MAX
             down == /\ P >= 2^24 - PHASE_MAX /\ P < 2^24
                     /\ L >= 0 /\ L <= PHASE_MAX
                     /\ (2^24 - P) + L <= PHASE_MAX
             accumulated(d) ==
                 /\ upd'.phase_diff = d
                 /\ ~upd'.ovf => ss'.pid_ctrl.error
                                   = ss.pid_ctrl.error + (upd'.move_diff - d)
         IN  /\ up => accumulated((2^24 - L) + P)
             /\ down => accumulated(-((2^24 - P) + L))
      ]_vars

\* the encoder went from the phase 2^24 - 10 to the phase 10
C14_Witness ==
    /\ HpidRan
    /\ EncPhase(upd.phase) = 10
    /\ upd.raw_diff = 20 - 2^24
    /\ upd.phase_diff = 20
    /\ nupd = 2

NoTime == [t0 |-> 0, t1 |-> 0, t2 |-> 0]
\* values of the mode byte outside the five modes
UnknownModes == {5, 128, 255}
\* update() called with the stored mode overwritten by m
UpdateInMode(m, position) ==
    Build_update(rev, [ss EXCEPT !.flags = m], vs_position, position,
                 NoTime, "wrap")

(* C16: after set_mode(0) has returned and until another set_mode command, *)
(* every update() call is a no-op: it makes no driver call and changes no  *)
(* instance state.  The same holds for an update() call that reads a mode  *)
(* value outside the five known modes.                                     *)
C16_DisabledNoOp ==
    [][ /\ ( /\ UpdateStep
             /\ \/ ss.flags = SS_MODE_DISABLED
                \/ req.kind = "set_mode" /\ req.args[1] = 0 /\ cmd = Idle )
          => /\ upd'.mode = SS_MODE_DISABLED
             /\ drv' = <<>>
             /\ ss' = ss
             /\ vs_position' = vs_position
             /\ shutdown_msg' = ""
        /\ \A m \in UnknownModes : \A p \in WrapPositions :
              /\ UpdateInMode(m, p).ss = [ss EXCEPT !.flags = m]
              /\ UpdateInMode(m, p).calls = <<>>
              /\ UpdateInMode(m, p).sd = ""
      ]_vars

\* an update() has run after set_mode(0) took the instance out of open loop
C16_Witness ==
    /\ upd.mode = SS_MODE_DISABLED
    /\ req.kind = "set_mode" /\ req.args[1] = 0
    /\ req.from = SS_MODE_OPEN_LOOP
    /\ ss.run_current_scale = 200
    /\ drv = <<>>

C18_TorqueUpdate ==
    [][(UpdateStep /\ ss.flags = SS_MODE_TORQUE)
          => /\ Len(drv') = 1
             /\ drv'[1].a = Add32(position_to_phase(ss, upd'.position),
                                  ss.excite_angle)
             /\ drv'[1].b = ss.run_current_scale
             /\ ss' = ss
             /\ vs_position' = vs_position
             /\ shutdown_msg' = ""
             /\ \A v \in WrapVsPositions :
                   Build_update(rev, ss, v, upd'.position, NoTime,
                                "wrap").calls = drv'
      ]_vars

\* encoder 1000 is the phase 781; the excite angle 0xffffffff makes it 780
C18_Witness ==
    /\ upd.mode = SS_MODE_TORQUE
    /\ upd.position = 1000
    /\ ss.excite_angle = -1
    /\ Len(drv) = 1 /\ DrvPhase = 780 /\ DrvScale = 200

\* this step is a servo_stepper_get_stats command, up to its irq_enable()
GetStatsStep == ncmd' = ncmd + 1 /\ req'.kind = "get_stats"
\* this step is the sendf() of servo_stepper_get_stats
SendStep == req.kind = "get_stats" /\ cmd # Idle /\ cmd' = Idle
\* the larger of two uint32_t
UMax(a, b) == IF ULess(a, b) THEN b ELSE a

(* C19: get_stats reports the stored error and max_loop_time as they stand *)
(* at one instant between two update() calls (both are read in one         *)
(* interrupt-disabled section); max_loop_time is the maximum, over the     *)
(* hybrid_pid updates so far, of the clock difference measured around the  *)
(* update; it never decreases, and get_stats changes neither of the two.   *)
C19_StatsSnapshot ==
    [][ /\ GetStatsStep
          => /\ cmd'.loc.error = ss.pid_ctrl.error
             /\ cmd'.loc.max_loop_time = ss.pid_ctrl.max_loop_time
             /\ ss'.pid_ctrl.error = ss.pid_ctrl.error
             /\ ss'.pid_ctrl.max_loop_time = ss.pid_ctrl.max_loop_time
        /\ SendStep
          => /\ DOMAIN resp' = {"oid", "error", "max_time"}
             /\ resp'.error = cmd.loc.error
             /\ resp'.max_time = cmd.loc.max_loop_time
             /\ ss' = ss
        /\ HpidStep
          => /\ upd'.pid_time \in LoopTicks(scn)
             /\ ss'.pid_ctrl.max_loop_time
                  = UMax(ss.pid_ctrl.max_loop_time, upd'.pid_time)
        /\ ~HpidStep
          => ss'.pid_ctrl.max_loop_time = ss.pid_ctrl.max_loop_time
      ]_vars

\* the mode a servo_stepper_set_mode command with a valid code enters
NewMode(code) ==
    CASE code = 0 -> SS_MODE_DISABLED
      [] code = 1 -> SS_MODE_OPEN_LOOP
      [] code = 2 -> SS_MODE_TORQUE
      [] code = 3 -> SS_MODE_PID_INIT

(* C20: after a set_mode(m) command has returned, the first update() call  *)
(* dispatches on the new mode (for m = 3 on pid_init) and never on the     *)
(* mode in force before the command; update() reads the mode once per      *)
(* call, so the call that completes pid_init does not run the hybrid PID   *)
(* loop as well.                                                           *)
C20_NextUpdateUsesNewMode ==
    [][UpdateStep
          => /\ upd'.mode = ss.flags
             /\ (SetModeRan /\ cmd = Idle /\ req.args[1] \in 0..3)
                   => upd'.mode = NewMode(req.args[1])
             /\ ss.flags = SS_MODE_PID_INIT
                   => /\ nupd' = nupd
                      /\ \A i \in 1..Len(drv') : drv'[i].fn = "hold"
      ]_vars

\* the first update() after set_mode(2), issued in open loop, ran torque
C20_Witness ==
    /\ upd.mode = SS_MODE_TORQUE
    /\ req.kind = "set_mode" /\ req.args[1] = 2
    /\ req.from = SS_MODE_OPEN_LOOP
    /\ Len(drv) = 1 /\ drv[1].fn = "set_phase"

\* values of the flex argument a second command is given
FlexValues == {0, 50, 64, -1}
\* the instance a servo_stepper_set_mode command with these arguments leaves
\* behind when it starts in the present state, with the virtual stepper at vs
SetModeResult(args, vs) ==
    RunBlock(Build_set_mode(rev, args), 1,
             [ss |-> ss, vs |-> vs, irq |-> irq_enabled, calls |-> <<>>,
              sd |-> "", loc |-> NoLoc, resp |-> resp]).m.ss

(* C21: set_mode with mode 0 or mode 3 ignores flex: two commands that     *)
(* differ only in flex, applied to the same state, leave identical         *)
(* instance state.  For mode 1 flex is stored as hold_current_scale and    *)
(* excite_angle is unchanged; for mode 2 flex is stored as excite_angle    *)
(* and hold_current_scale is unchanged.                                    *)
C21_FlexByMode ==
    [][SetModeStep =>
         LET a == req'.args
         IN  /\ a[1] \in {0, 3}
                  => \A f \in FlexValues :
                        SetModeResult([a EXCEPT ![3] = f], vs_position') = ss'
             /\ a[1] = 1 => /\ ss'.hold_current_scale = a[3]
                            /\ ss'.excite_angle = ss.excite_angle
             /\ a[1] = 2 => /\ ss'.excite_angle = a[3]
                            /\ ss'.hold_current_scale = ss.hold_current_scale
      ]_vars

(* C22: in every reachable state with mode != disabled,                    *)
(* full_steps_per_rotation > 0: no sequence of config_servo_stepper and    *)
(* set_mode commands lets an instance configured with                      *)
(* full_steps_per_rotation = 0 leave the disabled mode.                    *)
C22_StepsPositive ==
    ss.flags # SS_MODE_DISABLED => ss.full_steps_per_rotation # 0

\* a * f modulo 2^32 for a multiplier 0 <= f < 2^30, by doubling
Dbl(h) == Add32(h, h)
RECURSIVE MulMod32(_, _)
MulMod32(a, f) ==
    IF f = 0 THEN 0
    ELSE Add32(IF f % 2 = 1 THEN a ELSE 0, Dbl(MulMod32(a, f \div 2)))
\* floor(u / 256) of the uint32_t u held in the bit pattern a
Floor256(a) ==
    IF a >= 0 THEN a \div 256 ELSE ((a - Min32) \div 256) + 2^23
\* floor((f * p + 128) / 256) in 32-bit unsigned arithmetic
PhaseRef(f, p) == Floor256(Add32(MulMod32(p, f), 128))
\* this state follows an update() that converted the encoder position
PhaseTaken == upd.mode = SS_MODE_TORQUE

(* C23: position_to_phase(p) equals                                        *)
(* floor((full_steps_per_rotation * p + 128) / 256) in 32-bit unsigned     *)
(* arithmetic; for every p with 0 <= p and                                 *)
(* p + 1 < 2^24 / full_steps_per_rotation it is non-decreasing in p and    *)
(* position_to_phase(p + 1) - position_to_phase(p) <=                      *)
(* ceil(full_steps_per_rotation / 256).                                    *)
C23_PhaseMapping ==
    PhaseTaken =>
        LET f == ss.full_steps_per_rotation
            p == upd.position
        IN  /\ upd.phase = PhaseRef(f, p)
            /\ position_to_phase(ss, p) = upd.phase
            /\ (p >= 0 /\ p + 1 <= (2^24 - 1) \div f)
                  => /\ position_to_phase(ss, p + 1) >= upd.phase
                     /\ position_to_phase(ss, p + 1) - upd.phase
                          <= CeilDiv(f, 256)

\* with 257 full steps the phase goes from 127 to 129 between the
\* positions 127 and 128: a step of ceil(257 / 256) = 2
C23_Witness ==
    /\ PhaseTaken
    /\ ss.full_steps_per_rotation = 257
    /\ upd.position = 127
    /\ upd.phase = 127
    /\ position_to_phase(ss, 128) = 129

\* the encoder has read one position in every sample since set_hpid, and
\* the state before this hybrid_pid update is the one pid_init completed in
\* or one with error = 0 and integral = 0 after a hybrid_pid update
AtRest ==
    /\ scn = "rest"
    /\ upd.mode \in {SS_MODE_PID_INIT, SS_MODE_HPID}
    /\ ss.pid_ctrl.error = 0
    /\ ss.pid_ctrl.integral = 0

(* C24: if the encoder position is constant throughout pid_init and        *)
(* afterwards, and the commanded (virtual stepper) position stays at the   *)
(* value it had when pid_init completed, then after every subsequent       *)
(* hybrid_pid update error = 0 and integral = 0, for any gains and any     *)
(* clock values.                                                           *)
C24_RestKeepsZeroError ==
    [][(HpidStep /\ AtRest /\ vs_position' = vs_position)
          => /\ ss'.pid_ctrl.error = 0
             /\ ss'.pid_ctrl.integral = 0
      ]_vars

(* C25: in hybrid_pid, while the stored error is positive on every sample, *)
(* integral is non-decreasing, reaches exactly +256 after finitely many    *)
(* updates (it grows by at least 1 per update until then) and stays at     *)
(* +256 on every later update; symmetrically it reaches and stays at -256  *)
(* under a sustained negative error.                                       *)
C25_IntegralWindsUp ==
    [][HpidStep =>
         /\ ss'.pid_ctrl.error > 0
              => /\ ss'.pid_ctrl.integral >= ss.pid_ctrl.integral
                 /\ ss.pid_ctrl.integral < FULL_STEP
                      => ss'.pid_ctrl.integral > ss.pid_ctrl.integral
                 /\ ss.pid_ctrl.integral = FULL_STEP
                      => ss'.pid_ctrl.integral = FULL_STEP
         /\ ss'.pid_ctrl.error < 0
              => /\ ss'.pid_ctrl.integral <= ss.pid_ctrl.integral
                 /\ ss.pid_ctrl.integral > -FULL_STEP
                      => ss'.pid_ctrl.integral < ss.pid_ctrl.integral
                 /\ ss.pid_ctrl.integral = -FULL_STEP
                      => ss'.pid_ctrl.integral = -FULL_STEP
      ]_vars

\* the control output of spec 4.3 step 8 for the control error ce, the
\* integral i, the corrected phase difference pd and the time step dt
ControlOutput(p, ce, i, pd, dt) ==
    CONSTRAIN(SDiv(SSub(SAdd(SMul(p.Kp, ce, "wrap"), SMul(p.Ki, i, "wrap"),
                             "wrap"),
                        SDiv(SMul(p.Kd, pd, "wrap"), dt), "wrap"),
                   PID_SCALE_DIVISOR),
              -FULL_STEP, FULL_STEP)
\* the integral of spec 4.3 step 6 after adding the control error ce over dt
IntegralOf(p, ce, dt) ==
    CONSTRAIN(SAdd(p.integral, SMul(ce, dt, "wrap"), "wrap"),
              -FULL_STEP, FULL_STEP)

(* C26: in a hybrid_pid update the stored error is accumulated without     *)
(* clamping (error += d_stp - d_phase), while the value used in the        *)
(* proportional term and added to the integral is clamp(error, -256, 256); *)
(* the unclamped stored error is never used directly in Kp*error or in the *)
(* integral accumulation.  (Stated for the updates without signed          *)
(* overflow.)                                                              *)
C26_ClampedForControl ==
    [][(HpidStep /\ ~upd'.ovf) =>
         LET ce == CONSTRAIN(ss'.pid_ctrl.error, -FULL_STEP, FULL_STEP)
         IN  /\ ss'.pid_ctrl.error
                  = ss.pid_ctrl.error + (upd'.move_diff - upd'.phase_diff)
             /\ ss'.pid_ctrl.integral
                  = IntegralOf(ss.pid_ctrl, ce, upd'.time_diff)
             /\ upd'.co
                  = ControlOutput(ss.pid_ctrl, ce, ss'.pid_ctrl.integral,
                                  upd'.phase_diff, upd'.time_diff)
      ]_vars

(* C27: in every hybrid_pid update the products Kp*error, error*dt and     *)
(* Ki*integral and their sum stay within the signed 32-bit range, for      *)
(* every int16 gain and every reachable stored error, including after a    *)
(* large one-sample jump of the commanded position.  (error is the value   *)
(* the update multiplies, upd.cerr.)                                       *)
C27_ProductsFit ==
    HpidRan =>
        /\ MulFits(ss.pid_ctrl.Kp, upd.cerr)
        /\ MulFits(upd.cerr, upd.time_diff)
        /\ MulFits(ss.pid_ctrl.Ki, ss.pid_ctrl.integral)
        /\ AddFits(ss.pid_ctrl.Kp * upd.cerr,
                   ss.pid_ctrl.Ki * ss.pid_ctrl.integral)

\* the clock ticks from t0 to t1 on the 32-bit clock, in units of 1024
\* ticks, and 1 where that is 0
TimeStepRef(t0, t1) ==
    LET d == Sub32(t1, t0)
        q == IF d >= 0 THEN d \div 1024 ELSE ((d - Min32) \div 1024) + 2^21
    IN  IF q = 0 THEN 1 ELSE q

(* C28: in every hybrid_pid update the time step                           *)
(* dt = (t_now - last_sample_time) >> TIME_SCALE_SHIFT, computed in        *)
(* unsigned 32-bit wrapping arithmetic, is clamped so that dt >= 1; the    *)
(* division by dt in the derivative term is never a division by zero,      *)
(* including when t_now equals last_sample_time and when the clock has     *)
(* wrapped past 2^32.                                                      *)
C28_TimeStepPositive ==
    [][HpidStep =>
         /\ upd'.time_diff
              = TimeStepRef(ss.pid_ctrl.last_sample_time, upd'.sample_time)
         /\ upd'.time_diff >= 1
         /\ upd'.time_diff < 2^22
         /\ ss'.pid_ctrl.last_sample_time = upd'.sample_time
      ]_vars

\* the clock went from 0xfffffc00 over the wrap to 2048: 3 units
C28_Witness ==
    /\ HpidRan
    /\ upd.sample_time = 2048
    /\ upd.time_diff = 3
    /\ ss.pid_ctrl.Kd = 1024

\* the phase offset of the instance: the phase of the mean of the init
\* samples, which the build with the single sample keeps in phase_offset
PhaseOffset ==
    IF rev = "head" THEN position_to_phase(ss, ss.pid_ctrl.encoder_offset)
    ELSE ss.pid_ctrl.phase_offset

(* C29: the phase used by a hybrid_pid update for the raw encoder position *)
(* p equals position_to_phase(p) - phase_offset, where phase_offset =      *)
(* position_to_phase(mean of the init samples), as values modulo 2^24,     *)
(* for every p and every mean.                                             *)
C29_PhaseMinusOffset ==
    /\ HpidRan
         => upd.phase % 2^24
              = Sub32(position_to_phase(ss, upd.position), PhaseOffset) % 2^24
    /\ (InitCompleted /\ rev = "p1")
         => ss.pid_ctrl.phase_offset = position_to_phase(ss, upd.position)

\* a statement that writes to the instance or the virtual stepper, or
\* calls the driver
IsEffect(st) == IsStore(st) \/ st.op \in {"drv", "drv_last_phase"}
\* the handler stores the mode flag, inside its critical section, and no
\* write and no driver call follows the store
FlagStoredLast(prog) ==
    \E i \in 1..Len(prog) :
        /\ prog[i].op = "set" /\ prog[i].f = "flags"
        /\ \E j \in 1..(i - 1) : prog[j].op = "irq_disable"
        /\ \A j \in (i + 1)..Len(prog) : ~IsEffect(prog[j])

(* C30: in every mode-entering command (set_disabled, set_open_loop,       *)
(* set_torque, set_hpid) the store of the new mode flag is the last write  *)
(* to the instance and the last driver call made inside the critical       *)
(* section: configuration fields, driver reset/enable/disable and          *)
(* PID-state resets all precede it.                                        *)
C30_FlagStoredLast ==
    [][(SetModeStep /\ U8(req'.args[1]) \in 0..3)
          => FlagStoredLast(Build_set_mode(rev, req'.args))
      ]_vars

\* a statement that tests the mode the instance is in (the handlers of the
\* two builds have none)
IsModeTest(st) == st.op = "check_mode"
\* the handler tests the current mode and stores the new one inside one
\* interrupt-disabled section
TestsModeInSection(prog) ==
    \E i, j, k \in 1..Len(prog) :
        /\ i < j /\ j < k
        /\ prog[i].op = "irq_disable"
        /\ IsModeTest(prog[j])
        /\ prog[k].op = "set" /\ prog[k].f = "flags"
        /\ \A n \in i..k : prog[n].op # "irq_enable"

(* C31: in set_hpid the test of the current mode (is the transition        *)
(* legal?) and the write of the new mode happen inside the same            *)
(* interrupt-disabled section, so no update() call can run between the     *)
(* test and the write.                                                     *)
C31_TestAndWriteAtomic ==
    [][(SetModeStep /\ U8(req'.args[1]) = 3)
          => TestsModeInSection(Build_set_mode(rev, req'.args))
      ]_vars

\* this step is an update() call in the pre-roll of pid_init
PrerollStep ==
    /\ UpdateStep /\ rev = "head"
    /\ ss.flags = SS_MODE_PID_INIT
    /\ ss.pid_ctrl.last_phase # 0
\* encoder positions an update() of the pre-roll might have been given
PrerollPositions == {0, 743, 1000, 10000, -1}

(* C32: after set_hpid, the first PID_INIT_HOLD (2000) update() calls in   *)
(* pid_init take no encoder sample and change neither init_count nor the   *)
(* running mean; the driver hold(hold_current_scale) call is made exactly  *)
(* once per init, during that pre-roll (in the call that finds the         *)
(* counter at PID_INIT_HOLD - 10), before the first sample is taken.       *)
C32_Preroll ==
    [][ /\ (SetModeStep /\ U8(req'.args[1]) = 3 /\ rev = "head")
             => /\ ss'.pid_ctrl.last_phase = PID_INIT_HOLD
                /\ \A i \in 1..Len(drv') : drv'[i].fn # "hold"
        /\ PrerollStep
             => /\ ss.pid_ctrl.last_phase \in 1..PID_INIT_HOLD
                /\ ss'.pid_ctrl.last_phase = ss.pid_ctrl.last_phase - 1
                /\ ss' = [ss EXCEPT !.pid_ctrl.last_phase = @ - 1]
                /\ ss.pid_ctrl.init_count = 0
                /\ shutdown_msg' = ""
                /\ drv' = IF ss.pid_ctrl.last_phase = PID_INIT_HOLD - 10
                          THEN <<Call("hold", ss.hold_current_scale, 0)>>
                          ELSE <<>>
                /\ \A q \in PrerollPositions :
                      Build_update(rev, ss, vs_position', q, NoTime,
                                   "wrap").ss = ss'
        /\ (UpdateStep /\ rev = "head" /\ ss.flags = SS_MODE_PID_INIT
              /\ ss.pid_ctrl.last_phase = 0)
             => drv' = <<>>
      ]_vars

\* the eleventh update() of the pre-roll has applied the hold current
C32_Witness ==
    /\ rev = "head"
    /\ upd.mode = SS_MODE_PID_INIT
    /\ ss.pid_ctrl.last_phase = PID_INIT_HOLD - 11
    /\ ss.pid_ctrl.init_count = 0
    /\ drv = <<Call("hold", 50, 0)>>

\* update() calls pid_init has had since set_hpid: those of the pre-roll
\* and one for each sample taken
InitCalls(s) ==
    (PID_INIT_HOLD - s.pid_ctrl.last_phase) + s.pid_ctrl.init_count

\* every update() call of pid_init that does not shut down counts one call,
\* and the mode becomes hybrid_pid in the 2020th and in no other
C33_CountsCalls ==
    [][ /\ (SetModeStep /\ U8(req'.args[1]) = 3 /\ rev = "head")
             => ss'.flags = SS_MODE_PID_INIT /\ InitCalls(ss') = 0
        /\ (rev = "head" /\ ss.flags = SS_MODE_PID_INIT)
             => InitCalls(ss) \in 0..(PID_INIT_HOLD + PID_INIT_SAMPLES - 1)
        /\ (UpdateStep /\ rev = "head" /\ ss.flags = SS_MODE_PID_INIT
              /\ shutdown_msg' = "")
             => /\ InitCalls(ss') = InitCalls(ss) + 1
                /\ ss'.flags \in {SS_MODE_PID_INIT, SS_MODE_HPID}
                /\ ss'.flags = SS_MODE_HPID
                      <=> InitCalls(ss') = PID_INIT_HOLD + PID_INIT_SAMPLES
      ]_vars

\* pid_init ends: in hybrid_pid, in a shutdown, or by the host's next command
C33_InitEnds ==
    \A n \in 0..MaxCmds :
        (rev = "head" /\ ss.flags = SS_MODE_PID_INIT /\ ncmd = n)
            ~> \/ ss.flags = SS_MODE_HPID
               \/ shutdown_msg # ""
               \/ ncmd # n

(* C33: from a set_hpid command, if no set_mode command intervenes and no  *)
(* sample triggers the variance shutdown, pid_init always terminates: mode *)
(* becomes hybrid_pid at the end of exactly the (PID_INIT_HOLD +           *)
(* PID_INIT_SAMPLES) = 2020th update() call, and not before.               *)
C33_InitTerminates == C33_CountsCalls /\ C33_InitEnds

\* the 2020th update() call since set_hpid has made the mode hybrid_pid
C33_Witness ==
    /\ rev = "head"
    /\ InitCompleted
    /\ InitCalls(ss) = 2020
    /\ ss.pid_ctrl.init_count = PID_INIT_SAMPLES

\* the least and the greatest of a set of uint32_t values
LeastOf(S) == CHOOSE x \in S : \A y \in S : ~ULess(y, x)
GreatestOf(S) == CHOOSE x \in S : \A y \in S : ~ULess(x, y)
\* the last step was an update() in which pid_init accepted a sample
AfterSample ==
    /\ rev = "head"
    /\ upd.mode = SS_MODE_PID_INIT
    /\ shutdown_msg = ""
    /\ ss.pid_ctrl.init_count >= 1
\* the mean is one of the samples when they are all equal
MeanOfEqualSamples ==
    Cardinality(samples) = 1 => ss.pid_ctrl.encoder_offset \in samples

(* C34 as stated: during pid_init sampling, after every accepted sample    *)
(* the running mean (encoder_offset) lies between the minimum and the      *)
(* maximum of the samples accepted so far in this init; if all samples are *)
(* equal the mean equals that sample.                                      *)
C34_MeanBetween ==
    AfterSample =>
        /\ ~ULess(ss.pid_ctrl.encoder_offset, LeastOf(samples))
        /\ ~ULess(GreatestOf(samples), ss.pid_ctrl.encoder_offset)
        /\ MeanOfEqualSamples

\* the accepted samples lie on both sides of the wrap of the uint32_t
\* encoder position
StraddleWrap(S) == Sub32(GreatestOf(S), LeastOf(S)) < 0

(* C34, amended: after every accepted sample the running mean lies between *)
(* the samples accepted so far in this init on the 32-bit circle of        *)
(* encoder positions: one sample is at or behind the mean and one at or    *)
(* ahead of it, each by less than 2^31; this is min <= mean <= max         *)
(* unless the samples lie on both sides of the wrap of the position. If    *)
(* all samples are equal the mean equals that sample.                      *)
C34_MeanBetweenAmended ==
    AfterSample =>
        /\ \E a, b \in samples :
              /\ Sub32(a, ss.pid_ctrl.encoder_offset) <= 0
              /\ Sub32(b, ss.pid_ctrl.encoder_offset) >= 0
        /\ ~StraddleWrap(samples)
              => /\ ~ULess(ss.pid_ctrl.encoder_offset, LeastOf(samples))
                 /\ ~ULess(GreatestOf(samples), ss.pid_ctrl.encoder_offset)
        /\ MeanOfEqualSamples

\* several different samples were accepted and the mean is none of them
C34_Witness ==
    /\ AfterSample
    /\ Cardinality(samples) >= 3
    /\ ss.pid_ctrl.encoder_offset \notin samples
    /\ ss.pid_ctrl.init_count >= 3

\* commanded displacement since pid_init, in phase units, minus the measured
\* phase displacement since pid_init (last_phase was 0 then), in 32 bits
\* (the build of part_001 keeps last_stp_pos in phase units already)
ErrorRef ==
    LET d_stp == Sub32(ss.pid_ctrl.last_stp_pos, since_init.stp)
    IN  Sub32(IF rev = "head" THEN Mul32(d_stp, ss.step_multiplier)
              ELSE d_stp,
              ss.pid_ctrl.last_phase)

(* C35: in hybrid_pid, after any sequence of updates, the stored error is  *)
(* congruent modulo 2^24 (PHASE_BIAS) to (commanded displacement since     *)
(* pid_init, in phase units) minus (measured phase displacement since      *)
(* pid_init), i.e. error = (stp - stp_at_init) - (last_phase - 0)          *)
(* (mod 2^24); when no wrap correction has been applied the equality is    *)
(* exact modulo 2^32.                                                      *)
C35_ErrorIsDisplacement ==
    (HpidRan /\ ss.flags = SS_MODE_HPID) =>
        /\ Sub32(ss.pid_ctrl.error, ErrorRef) % PHASE_BIAS = 0
        /\ ~since_init.biased => ss.pid_ctrl.error = ErrorRef

(* C36: every entry into pid_init starts from a fresh init: whenever a     *)
(* set_hpid command returns, init_count = 0, the pre-roll counter is at    *)
(* PID_INIT_HOLD, error = 0 and integral = 0, whatever the previous mode   *)
(* was and even if an earlier pid_init was interrupted part-way by another *)
(* set_mode command; no sample of an earlier init contributes to the new   *)
(* mean (the first sample of the init replaces the mean).                  *)
C36_FreshInit ==
    [][ /\ (SetModeStep /\ U8(req'.args[1]) = 3 /\ rev = "head")
             => /\ cmd' = Idle /\ irq_enabled'
                /\ ss'.flags = SS_MODE_PID_INIT
                /\ ss'.pid_ctrl.init_count = 0
                /\ ss'.pid_ctrl.last_phase = PID_INIT_HOLD
                /\ ss'.pid_ctrl.error = 0
                /\ ss'.pid_ctrl.integral = 0
        /\ (UpdateStep /\ TakesSample /\ rev = "head"
              /\ ss.pid_ctrl.init_count = 0 /\ shutdown_msg' = "")
             => /\ ss'.pid_ctrl.encoder_offset = upd'.position
                /\ ss'.pid_ctrl.init_count = 1
                /\ samples' = {upd'.position}
      ]_vars

\* set_hpid has returned after it interrupted a pid_init that had taken
\* samples, whose mean is still stored
C36_Witness ==
    /\ rev = "head"
    /\ SetModeRan /\ U8(req.args[1]) = 3 /\ req.from = SS_MODE_PID_INIT
    /\ cmd = Idle
    /\ ss.pid_ctrl.init_count = 0
    /\ ss.pid_ctrl.last_phase = PID_INIT_HOLD
    /\ Cardinality(samples) >= 2
    /\ ss.pid_ctrl.encoder_offset \notin {0, 1000}

\* from statement i on, with interrupts disabled or not (masked), the
\* handler enables interrupts exactly once after every irq_disable(), never
\* disables them twice, shuts down only with interrupts enabled and returns
\* with interrupts enabled
RECURSIVE PairsIrq(_, _, _)
PairsIrq(prog, i, masked) ==
    IF i > Len(prog) THEN ~masked
    ELSE IF prog[i].op = "irq_disable"
         THEN ~masked /\ PairsIrq(prog, i + 1, TRUE)
    ELSE IF prog[i].op = "irq_enable"
         THEN masked /\ PairsIrq(prog, i + 1, FALSE)
    ELSE IF prog[i].op = "shutdown" THEN ~masked
    ELSE PairsIrq(prog, i + 1, masked)

\* this step is one of the command context
CommandStep == upd' = NoLocals /\ (ncmd' = ncmd + 1 \/ cmd # Idle)

(* C37: interrupts are enabled whenever a command handler (set_mode,       *)
(* get_stats) returns or shuts down: every irq_disable() in the command    *)
(* context is followed on every path by exactly one irq_enable(), critical *)
(* sections are never nested, and no shutdown is raised by the command     *)
(* context while interrupts are disabled.                                  *)
C37_IrqPaired ==
    [][ /\ SetModeStep => PairsIrq(Build_set_mode(rev, req'.args), 1, FALSE)
        /\ GetStatsStep => PairsIrq(Build_get_stats(rev, req'.args), 1, FALSE)
        /\ CommandStep
             => /\ irq_enabled
                /\ (cmd' = Idle \/ shutdown_msg' # "") => irq_enabled'
                /\ ~irq_enabled' => cmd' # Idle
      ]_vars

\* set_mode has shut down on a mode it does not know, interrupts enabled
C37_Witness ==
    /\ req.kind = "set_mode"
    /\ U8(req.args[1]) = 4
    /\ shutdown_msg = "Unknown Servo Mode"
    /\ irq_enabled

\* pin is one of the entries of the dac_pins table
InDacPins(pin) == \E i \in 1..Len(dac_pins) : dac_pins[i] = pin

(* C38: gpio_dac_setup(pin) returns a channel index that is a valid index  *)
(* of the dac_pins table (0 or 1) with dac_pins[chan] == pin; for a pin    *)
(* not in the table it raises the shutdown "Not a valid DAC pin." before   *)
(* reading past the end of the table and before touching any DAC register. *)
C38_DacSetup ==
    /\ dac.reads \subseteq 0..(Len(dac_pins) - 1)
    /\ dac.pc \in {"enable", "return"}
         => /\ dac.chan \in {0, 1}
            /\ dac_pins[dac.chan + 1] = dac.pin
    /\ (dac.pc \in {"loop", "halt"} /\ ~InDacPins(dac.pin))
         => /\ dac.calls = <<>>
            /\ dac.CR = dac.cr0
    /\ dac.pc = "halt"
         => /\ shutdown_msg = "Not a valid DAC pin."
            /\ ~InDacPins(dac.pin)
            /\ dac.reads = {0, 1}
    /\ (dac.pc # "idle" /\ dac.pc # "loop" /\ ~InDacPins(dac.pin))
         => dac.pc = "halt"

\* a second call, for a pin whose low byte is in the table, has shut down
\* after the first had set up channel 1
C38_Witness ==
    /\ dac.pc = "halt"
    /\ dac.pin = 260
    /\ dac.ncall = 2
    /\ dac.cr0[1] = 1
    /\ shutdown_msg = "Not a valid DAC pin."

====
